---- MODULE Spec2Model ----
(***************************************************************************)
(* Transport engine of the logwatch client (src/logwatch_client.py):       *)
(* the durable log queue (LogQueueStore), the connection state machine,    *)
(* the uploader loop, the heartbeat loop, the resume probe, the event      *)
(* reporter and the shutdown drain of LogUploader.stop().                  *)
(*                                                                         *)
(* Threads: "m" is the supervisor (main) thread, which runs start(), the   *)
(* event reports and stop(); "u" is the uploader worker (_run); "h" is the *)
(* heartbeat worker (_run_heartbeat); "d" is a sequential caller of the    *)
(* public state-machine methods, as in test_logwatch_client.py.            *)
(*                                                                         *)
(* Time is relative: next_retry_at holds _next_retry_at - time.time()      *)
(* floored at 0, so "time.time() >= _next_retry_at" is next_retry_at = 0;  *)
(* pending_since holds time.time() - _pending_since (Unset when the code's *)
(* _pending_since is 0.0), capped at the batch interval.                   *)
(***************************************************************************)
EXTENDS Integers, Sequences, FiniteSets, TLC

\* ---------------------------------------------------------------- bounds
MaxChunks    == 1   \* chunks of output the child writes (SpecUpload, SpecLive)
MaxFaults    == 1   \* responses that are not a plain ok (SpecUpload, SpecLive)
DrainChunks  == 2   \* chunks of output the child writes (SpecDrain)
DrainFaults  == 1   \* responses that are not a plain ok (SpecDrain)
HbChunks     == 1   \* chunks of output the child writes (Spec)
HbFaults     == 1   \* responses that are not a plain ok (Spec)
MaxResumeAck == 1   \* largest last_ack_seq the resume probe is answered with
MaxHeartbeats == 1  \* heartbeats the heartbeat worker sends
MaxCircuit   == 2   \* largest configured upload_circuit_break_max
MaxCalls     == 8   \* calls the sequential caller "d" makes
MaxRows      == 2   \* client_seqs the caller of the queue's methods uses (SpecQueue)
MaxRetries   == 1   \* largest retry_count mark_failed is driven to (SpecQueue)
AgentChunks  == 1   \* chunks of output the child writes (SpecAgent, SpecAgentFaulty)
AgentFaults  == 1   \* responses that are not a plain ok (SpecAgent, SpecAgentFaulty)
MaxSignals   == 1   \* SIGINT/SIGTERM delivered to the agent (SpecAgentFaulty)
MaxDbFaults  == 1   \* queue operations that raise (SpecAgentFaulty)
MaxBytes     == 2   \* bytes of output the child writes (SpecIngest)

\* ------------------------------------------------------ program constants
RETRY_BACKOFF_BASE_SECONDS == 5
RETRY_BACKOFF_MAX_SECONDS  == 60
EVENT_RETRIES   == 3     \* send_event(retries=3)
DRAIN_ATTEMPTS  == 20    \* for _ in range(20) in stop()
TickSeconds     == RETRY_BACKOFF_BASE_SECONDS   \* granularity of the clock
batch_interval_s == 5    \* BATCH_INTERVAL_MS / 1000
batch_size      == 2     \* configured batch_size
PUBLISH_GRACE_SECONDS == 1   \* publish_grace_seconds (default)

ONLINE         == "online"
RETRYING       == "retrying"
OFFLINE_GIVEUP == "offline_giveup"
TASK_DELETED   == "task_deleted"
TransportState == {ONLINE, RETRYING, OFFLINE_GIVEUP, TASK_DELETED}

POST_OK             == "ok"
POST_RETRYABLE_FAIL == "retryable_fail"
POST_TASK_DELETED   == "task_deleted"

Min(a, b) == IF a < b THEN a ELSE b
Max(a, b) == IF a > b THEN a ELSE b

Unset  == -1   \* _pending_since <= 0
NoAck  == -1   \* the response carries no ack_seq
QMax   == MaxResumeAck + Max(MaxChunks, Max(DrainChunks, HbChunks))
Seqs   == 1..QMax
RowStatus == {"none", "pending", "sent", "failed", "archived"}

\* ------------------------------------------------------------ LogQueueStore
\* The rows of the task: client_seq -> status ("none": no such row).

get_max_seq(q) ==
    IF \E s \in Seqs : q[s] # "none"
    THEN CHOOSE s \in Seqs : q[s] # "none" /\ \A r \in Seqs : q[r] # "none" => r <= s
    ELSE 0

\* without max(next_seq, min_value)
get_next_seq_local(q, min_value) == get_max_seq(q) + 1

get_next_seq(q, min_value) == Max(get_max_seq(q) + 1, min_value)

\* INSERT OR REPLACE
enqueue_or_replace(q, client_seq, status) ==
    IF client_seq \in Seqs THEN [q EXCEPT ![client_seq] = status] ELSE q

\* INSERT OR IGNORE
enqueue(q, client_seq, status) ==
    IF client_seq \in Seqs /\ q[client_seq] = "none"
    THEN [q EXCEPT ![client_seq] = status]
    ELSE q

\* the content column after the same INSERT OR IGNORE (q: the status column before)
enqueue_content(q, c, client_seq, text) ==
    IF client_seq \in Seqs /\ q[client_seq] = "none"
    THEN [c EXCEPT ![client_seq] = text]
    ELSE c

\* without the second UPDATE
reconcile_promote_only(q, ack) ==
    [s \in Seqs |->
        IF q[s] = "none" THEN "none"
        ELSE IF s <= ack THEN "sent"
        ELSE q[s]]

reconcile_with_server_ack(q, ack) ==
    [s \in Seqs |->
        IF q[s] = "none" THEN "none"
        ELSE IF s <= ack THEN "sent"
        ELSE IF q[s] = "sent" THEN "pending"
        ELSE q[s]]

get_pending_count(q) == Cardinality({s \in Seqs : q[s] = "pending"})

get_unsent_count(q) == Cardinality({s \in Seqs : q[s] \in {"pending", "failed"}})

RECURSIVE AscendingFrom(_, _, _)
\* the first `limit` members of set S that are >= s, in ascending order
AscendingFrom(S, s, limit) ==
    IF limit = 0 \/ s > QMax THEN << >>
    ELSE IF s \in S THEN <<s>> \o AscendingFrom(S, s + 1, limit - 1)
    ELSE AscendingFrom(S, s + 1, limit)

get_pending_batch_failed_too(q, limit) ==
    AscendingFrom({s \in Seqs : q[s] \in {"pending", "failed"}}, 1, Max(1, limit))

\* SELECT ... WHERE status='pending' ORDER BY client_seq LIMIT max(1, limit)
get_pending_batch(q, limit) ==
    AscendingFrom({s \in Seqs : q[s] = "pending"}, 1, Max(1, limit))

reset_failed_to_pending(q) ==
    [s \in Seqs |-> IF q[s] = "failed" THEN "pending" ELSE q[s]]

mark_sent_up_to(q, ack_seq) ==
    [s \in Seqs |->
        IF s <= ack_seq /\ q[s] \in {"pending", "failed", "sent"} THEN "sent" ELSE q[s]]

SeqSet(b) == {b[i] : i \in 1..Len(b)}

\* without AND status='pending'
mark_failed_any_status(q, client_seqs) ==
    [s \in Seqs |->
        IF s \in SeqSet(client_seqs) /\ q[s] # "none" THEN "failed" ELSE q[s]]

mark_failed(q, client_seqs) ==
    [s \in Seqs |->
        IF s \in SeqSet(client_seqs) /\ q[s] = "pending" THEN "failed" ELSE q[s]]

\* the retry_count column after the same UPDATE (q: the status column before)
mark_failed_retries(q, r, client_seqs) ==
    [s \in Seqs |->
        IF s \in SeqSet(client_seqs) /\ q[s] = "pending" THEN r[s] + 1 ELSE r[s]]

archive_task(q) ==
    [s \in Seqs |->
        IF q[s] \in {"pending", "failed", "sent"} THEN "archived" ELSE q[s]]

\* ------------------------------------------------- connection state machine

set_transport_state_unguarded(old_state, new_state) == new_state

set_transport_state_giveup_final(old_state, new_state) ==
    IF old_state \in {TASK_DELETED, OFFLINE_GIVEUP} /\ new_state # old_state THEN old_state
    ELSE new_state

\* the state _set_transport_state leaves in _transport_state
set_transport_state(old_state, new_state) ==
    IF old_state = TASK_DELETED /\ new_state # TASK_DELETED THEN old_state
    ELSE new_state

\* the flags _sync_state_events sets for `state`
sync_state_events(state) ==
    CASE state = ONLINE         -> [transient_offline |-> FALSE, offline |-> FALSE, task_deleted |-> FALSE]
      [] state = RETRYING       -> [transient_offline |-> TRUE,  offline |-> FALSE, task_deleted |-> FALSE]
      [] state = OFFLINE_GIVEUP -> [transient_offline |-> TRUE,  offline |-> TRUE,  task_deleted |-> FALSE]
      [] OTHER                  -> [transient_offline |-> TRUE,  offline |-> TRUE,  task_deleted |-> TRUE]

next_backoff_uncapped(backoff) == backoff * 2

\* min(self._retry_backoff_seconds * 2, RETRY_BACKOFF_MAX_SECONDS)
next_backoff(backoff) == Min(backoff * 2, RETRY_BACKOFF_MAX_SECONDS)

is_task_deleted(state) == state = TASK_DELETED

is_offline(state) == state \in {OFFLINE_GIVEUP, TASK_DELETED}

\* int((payload or {}).get("ack_seq", batch[-1]["client_seq"]) or 0)
ack_seq_of(payload, b) == IF payload = NoAck THEN b[Len(b)] ELSE payload


\* 1142: if self._circuit_count >= self._circuit_max
circuit_break_late(count, max_count) == count > max_count

circuit_break(count, max_count) == count >= max_count

\* count_towards_giveup as passed by each caller of _mark_retryable_failure
flush_failure_counts_too == TRUE

flush_failure_counts     == FALSE   \* _flush_batch
event_failure_counts     == FALSE   \* send_event
heartbeat_failure_counts == TRUE    \* _send_heartbeat (default argument)
resume_failure_counts    == TRUE    \* _resume_from_server_ack (default argument)

\* ------------------------------------------------- decoding of the output
\* the bytes of the output: 0x61 "a", and 0xC3 0xA9, the UTF-8 encoding of U+00E9
Bytes == {"61", "C3", "A9"}

RECURSIVE decode(_)
\* chunk.decode("utf-8", errors="replace"): a lead byte without its
\* continuation byte and a stray continuation byte each give U+FFFD
decode(b) ==
    IF b = << >> THEN << >>
    ELSE IF Head(b) = "61" THEN <<"a">> \o decode(Tail(b))
    ELSE IF Head(b) = "C3" /\ Len(b) >= 2 /\ b[2] = "A9"
    THEN <<"U+00E9">> \o decode(SubSeq(b, 3, Len(b)))
    ELSE <<"U+FFFD">> \o decode(Tail(b))

\* ------------------------------------------------------------------- state
VARIABLES
    transport_state,          \* LogUploader._transport_state
    transient_offline,        \* threading.Event _transient_offline
    offline,                  \* threading.Event _offline
    task_deleted,             \* threading.Event _task_deleted
    circuit_max,              \* _circuit_max (configuration)
    circuit_count,            \* _circuit_count
    next_retry_at,            \* _next_retry_at, relative to now
    retry_backoff_seconds,    \* _retry_backoff_seconds
    last_ack_seq,             \* _last_ack_seq
    next_seq,                 \* _next_seq
    pending_since,            \* age of _pending_since, or Unset
    queue,                    \* the task's rows of log_queue
    written,                  \* chunks in the task's log file
    offset,                   \* _offset, in chunks
    stop,                     \* threading.Event _stop
    request_lock,             \* holder of _request_lock, or "free"
    pc,                       \* position of each thread
    ret,                      \* where the state-machine call of a thread returns
    fret,                     \* where the _flush_batch call of a thread returns
    cret,                     \* where the _collect_new_logs call of a thread returns
    batch,                    \* local `batch` of _flush_batch
    force,                    \* argument `force` of _flush_batch
    cnt,                      \* argument count_towards_giveup
    ack,                      \* local ack_seq of _flush_batch / payload of the probe
    chunk,                    \* local `chunk` of _collect_new_logs (its length)
    row_status,               \* local `row_status` of _collect_new_logs
    ev_i,                     \* loop variable i of send_event
    ev_ret,                   \* where send_event returns
    drain_i,                  \* iterations of the drain loop of stop() done
    heartbeats,               \* heartbeats sent so far
    faults,                   \* responses so far that were not a plain ok
    budget,                   \* the run's bounds: chunks written, faulty responses
    posts,                    \* history: batch POSTs that carried each client_seq
    probe_failed,                  \* history: a heartbeat or the resume probe has failed
    calls,                    \* history: calls made by "d"
    fails_since_ok,           \* history: failure notifications since the last ok
    giveup_fails_since_ok,    \* history: counting failures since the last ok
    content,                  \* column content of the task's rows: <<offset, length>>
                              \* of the chunk it was decoded from
    retry_count,              \* column retry_count of the task's rows
    resume_ack,               \* history: _last_ack_seq as the resume probe left it
    received,                 \* history: the <<client_seq, content>> pairs of the
                              \* batch POSTs that were answered ok
    late_rows,                \* history: the client_seqs enqueued while the
                              \* transport state was task_deleted
    pending_age,              \* history: seconds since each unsent row was enqueued
                              \* as pending (capped at the batch interval), or Unset
    child,                    \* the child process: not forked, forked, running, zombie, reaped
    wstatus,                  \* the child's wait status, or Unset while it lives
    exec_pipe,                \* what exec_r holds: nothing yet, EOF, or an errno
    pty,                      \* master_fd: the slave side is open, or read gives EOF
    died_at,                  \* history: elapsed when the child terminated, or Unset
    exec_checked,             \* main's exec_checked
    exec_ok,                  \* main's exec_ok
    published,                \* main's published
    child_terminated,         \* main's child_terminated
    exit_code,                \* main's exit_code
    handler,                  \* disposition of SIGINT/SIGTERM in the agent
    notified,                 \* send_task_notification_email has been called
    force_offline,            \* configuration force_offline
    email_enabled,            \* configuration: email_config["enabled"]
    log_bytes,                \* the bytes the child writes in this run; the first
                              \* `written` of them are in the task's log file
    uploader_started,         \* main's uploader_started
    offline_mode,             \* main's offline_mode
    elapsed,                  \* seconds since launch, capped at the publish grace
    signals,                  \* SIGINT/SIGTERM delivered to the agent so far
    db_faults,                \* queue operations that have raised so far
    resume_code,              \* local `code` of _resume_from_server_ack (0: none)
    probes,                   \* history: resume GETs issued
    events                    \* history: the event_type of each send_event call

smVars   == <<transport_state, transient_offline, offline, task_deleted,
              circuit_count, next_retry_at, retry_backoff_seconds>>
qVars    == <<queue, last_ack_seq, next_seq, pending_since, written, offset>>
ctlVars  == <<pc, ret, fret, cret>>
locVars  == <<batch, force, cnt, ack, chunk, row_status, ev_i, ev_ret, drain_i>>
envVars  == <<circuit_max, stop, request_lock, heartbeats, faults, budget>>
histVars == <<posts, probe_failed, calls, fails_since_ok, giveup_fails_since_ok>>
auxVars  == <<content, retry_count, resume_ack, received, late_rows, pending_age>>
childVars == <<child, wstatus, exec_pipe, pty, died_at>>
mainVars == <<exec_checked, exec_ok, published, child_terminated, exit_code, handler, notified>>
cfgVars  == <<force_offline, email_enabled, log_bytes>>
supVars  == <<childVars, mainVars, cfgVars, uploader_started, offline_mode, elapsed,
              signals, db_faults, resume_code, probes, events>>
vars     == <<smVars, qVars, ctlVars, locVars, envVars, histVars, auxVars, supVars>>

Threads == {"m", "u", "h", "d"}
None    == "-"

\* LogUploader.__init__ with the queue of a fresh task (main: task_id = uuid4())
InitUploader ==
    /\ transport_state = ONLINE
    /\ transient_offline = FALSE /\ offline = FALSE /\ task_deleted = FALSE
    /\ circuit_count = 0
    /\ next_retry_at = 0
    /\ retry_backoff_seconds = RETRY_BACKOFF_BASE_SECONDS
    /\ last_ack_seq = 0
    /\ next_seq = 1
    /\ pending_since = Unset
    /\ queue = [s \in Seqs |-> "none"]
    /\ written = 0 /\ offset = 0
    /\ stop = FALSE
    /\ request_lock = "free"
    /\ ret = [t \in Threads |-> None]
    /\ fret = [t \in Threads |-> None]
    /\ cret = [t \in Threads |-> None]
    /\ batch = [t \in Threads |-> << >>]
    /\ force = [t \in Threads |-> FALSE]
    /\ cnt = [t \in Threads |-> FALSE]
    /\ ack = [t \in Threads |-> NoAck]
    /\ chunk = [t \in Threads |-> 0]
    /\ row_status = [t \in Threads |-> None]
    /\ ev_i = 0 /\ ev_ret = None /\ drain_i = 0
    /\ heartbeats = 0 /\ faults = 0
    /\ posts = [s \in Seqs |-> 0]
    /\ probe_failed = FALSE
    /\ calls = 0 /\ fails_since_ok = 0 /\ giveup_fails_since_ok = 0
    /\ content = [s \in Seqs |-> << >>]
    /\ retry_count = [s \in Seqs |-> 0]
    /\ resume_ack = 0
    /\ received = {}
    /\ late_rows = {}
    /\ pending_age = [s \in Seqs |-> Unset]
    /\ resume_code = 0 /\ probes = 0

\* main when maybe_publish first finds the publish conditions true: the child
\* runs, exec is confirmed, the grace period is over (lines 1699-1725)
InitPublishing ==
    /\ child = "running" /\ wstatus = Unset /\ exec_pipe = "eof" /\ pty = "open"
    /\ died_at = Unset
    /\ exec_checked = TRUE /\ exec_ok = TRUE
    /\ published = FALSE /\ uploader_started = FALSE
    /\ child_terminated = FALSE
    /\ exit_code = 1
    /\ handler = "forward"
    /\ notified = FALSE
    /\ force_offline = FALSE /\ offline_mode = FALSE
    /\ email_enabled = FALSE
    /\ elapsed = PUBLISH_GRACE_SECONDS
    /\ signals = 0 /\ db_faults = 0
    /\ events = << >>

\* the child writes ASCII only
InitAsciiLog == log_bytes = [i \in 1..QMax |-> "61"]

\* the ages of the rows of q that are still unsent
unsent_ages(q, age) ==
    [s \in Seqs |-> IF q[s] \in {"pending", "failed"} THEN age[s] ELSE Unset]

\* ------------------------------------------------------------ call / return
Goto(t, loc) == pc' = [pc EXCEPT ![t] = loc]

\* enter a state-machine method that returns to r
Call(t, loc, r, c) ==
    /\ pc' = [pc EXCEPT ![t] = loc]
    /\ ret' = [ret EXCEPT ![t] = r]
    /\ cnt' = [cnt EXCEPT ![t] = c]

Return(t) ==
    /\ pc' = [pc EXCEPT ![t] = ret[t]]
    /\ ret' = [ret EXCEPT ![t] = None]
    /\ cnt' = [cnt EXCEPT ![t] = FALSE]

SetFlags(f) ==
    /\ transient_offline' = f.transient_offline
    /\ offline' = f.offline
    /\ task_deleted' = f.task_deleted

\* -------------------------------------------------- _mark_transport_success
MsSet(t) ==
    /\ pc[t] = "ms_set"
    /\ transport_state' = set_transport_state(transport_state, ONLINE)
    /\ Goto(t, "ms_sync")
    /\ UNCHANGED <<transient_offline, offline, task_deleted, circuit_count,
                   next_retry_at, retry_backoff_seconds>>
    /\ UNCHANGED <<qVars, ret, fret, cret, locVars, envVars, auxVars, supVars, histVars>>

MsSync(t) ==
    /\ pc[t] = "ms_sync"
    /\ SetFlags(sync_state_events(ONLINE))
    /\ Goto(t, "ms_reset")
    /\ UNCHANGED <<transport_state, circuit_count, next_retry_at, retry_backoff_seconds>>
    /\ UNCHANGED <<qVars, ret, fret, cret, locVars, envVars, auxVars, supVars, histVars>>

MsReset(t) ==
    /\ pc[t] = "ms_reset"
    /\ circuit_count' = 0
    /\ next_retry_at' = 0
    /\ retry_backoff_seconds' = RETRY_BACKOFF_BASE_SECONDS
    /\ Return(t)
    /\ UNCHANGED <<transport_state, transient_offline, offline, task_deleted>>
    /\ UNCHANGED <<qVars, fret, cret, batch, force, ack, chunk, row_status,
                   ev_i, ev_ret, drain_i, envVars, auxVars, supVars, histVars>>

\* -------------------------------------------------- _mark_retryable_failure
MfGet(t) ==
    /\ pc[t] = "mf_get"
    /\ IF transport_state \in {OFFLINE_GIVEUP, TASK_DELETED}
       THEN Return(t)
       ELSE Goto(t, "mf_set") /\ UNCHANGED <<ret, cnt>>
    /\ UNCHANGED <<smVars, qVars, fret, cret, batch, force, ack, chunk, row_status,
                   ev_i, ev_ret, drain_i, envVars, auxVars, supVars, histVars>>

MfSet(t) ==
    /\ pc[t] = "mf_set"
    /\ transport_state' = set_transport_state(transport_state, RETRYING)
    /\ Goto(t, "mf_sync")
    /\ UNCHANGED <<transient_offline, offline, task_deleted, circuit_count,
                   next_retry_at, retry_backoff_seconds>>
    /\ UNCHANGED <<qVars, ret, fret, cret, locVars, envVars, auxVars, supVars, histVars>>

MfSync(t) ==
    /\ pc[t] = "mf_sync"
    /\ SetFlags(sync_state_events(RETRYING))
    /\ Goto(t, "mf_backoff")
    /\ UNCHANGED <<transport_state, circuit_count, next_retry_at, retry_backoff_seconds>>
    /\ UNCHANGED <<qVars, ret, fret, cret, locVars, envVars, auxVars, supVars, histVars>>

MfBackoff(t) ==
    /\ pc[t] = "mf_backoff"
    /\ next_retry_at' = retry_backoff_seconds
    /\ retry_backoff_seconds' = next_backoff(retry_backoff_seconds)
    /\ IF cnt[t]
       THEN Goto(t, "mf_count") /\ UNCHANGED <<ret, cnt>>
       ELSE Return(t)
    /\ UNCHANGED <<transport_state, transient_offline, offline, task_deleted, circuit_count>>
    /\ UNCHANGED <<qVars, fret, cret, batch, force, ack, chunk, row_status,
                   ev_i, ev_ret, drain_i, envVars, auxVars, supVars, histVars>>

MfCount(t) ==
    /\ pc[t] = "mf_count"
    /\ circuit_count' = circuit_count + 1
    /\ IF circuit_break(circuit_count + 1, circuit_max)
       THEN Goto(t, "eo_set") /\ UNCHANGED <<ret, cnt>>
       ELSE Return(t)
    /\ UNCHANGED <<transport_state, transient_offline, offline, task_deleted,
                   next_retry_at, retry_backoff_seconds>>
    /\ UNCHANGED <<qVars, fret, cret, batch, force, ack, chunk, row_status,
                   ev_i, ev_ret, drain_i, envVars, auxVars, supVars, histVars>>

\* ------------------------------------------------------------ _enter_offline
EoSet(t) ==
    /\ pc[t] = "eo_set"
    /\ transport_state' = set_transport_state(transport_state, OFFLINE_GIVEUP)
    /\ IF transport_state' # transport_state
       THEN Goto(t, "eo_sync") /\ UNCHANGED <<ret, cnt>>
       ELSE Return(t)
    /\ UNCHANGED <<transient_offline, offline, task_deleted, circuit_count,
                   next_retry_at, retry_backoff_seconds>>
    /\ UNCHANGED <<qVars, fret, cret, batch, force, ack, chunk, row_status,
                   ev_i, ev_ret, drain_i, envVars, auxVars, supVars, histVars>>

EoSync(t) ==
    /\ pc[t] = "eo_sync"
    /\ SetFlags(sync_state_events(OFFLINE_GIVEUP))
    /\ Return(t)
    /\ UNCHANGED <<transport_state, circuit_count, next_retry_at, retry_backoff_seconds>>
    /\ UNCHANGED <<qVars, fret, cret, batch, force, ack, chunk, row_status,
                   ev_i, ev_ret, drain_i, envVars, auxVars, supVars, histVars>>

\* -------------------------------------------------------- _abandon_task_push
AbSet(t) ==
    /\ pc[t] = "ab_set"
    /\ transport_state' = set_transport_state(transport_state, TASK_DELETED)
    /\ IF transport_state' # transport_state
       THEN Goto(t, "ab_sync") /\ UNCHANGED <<ret, cnt>>
       ELSE Return(t)
    /\ UNCHANGED <<transient_offline, offline, task_deleted, circuit_count,
                   next_retry_at, retry_backoff_seconds>>
    /\ UNCHANGED <<qVars, fret, cret, batch, force, ack, chunk, row_status,
                   ev_i, ev_ret, drain_i, envVars, auxVars, supVars, histVars>>

AbSync(t) ==
    /\ pc[t] = "ab_sync"
    /\ SetFlags(sync_state_events(TASK_DELETED))
    /\ Goto(t, "ab_archive")
    /\ UNCHANGED <<transport_state, circuit_count, next_retry_at, retry_backoff_seconds>>
    /\ UNCHANGED <<qVars, ret, fret, cret, locVars, envVars, auxVars, supVars, histVars>>

AbArchive(t) ==
    /\ pc[t] = "ab_archive"
    /\ queue' = archive_task(queue)
    /\ pending_age' = unsent_ages(queue', pending_age)
    /\ Return(t)
    /\ UNCHANGED <<smVars, last_ack_seq, next_seq, pending_since, written, offset>>
    /\ UNCHANGED <<fret, cret, batch, force, ack, chunk, row_status,
                   ev_i, ev_ret, drain_i, envVars, content, retry_count, resume_ack,
                   received, late_rows, supVars, histVars>>

\* the steps of the state-machine methods, run by thread t
StateMachineStep(t) ==
    \/ MsSet(t) \/ MsSync(t) \/ MsReset(t)
    \/ MfGet(t) \/ MfSet(t) \/ MfSync(t) \/ MfBackoff(t) \/ MfCount(t)
    \/ EoSet(t) \/ EoSync(t)
    \/ AbSet(t) \/ AbSync(t) \/ AbArchive(t)

\* ------------------------------------------------------------ HTTP transport
HttpCodes == {200, 404, 409, 500}

\* post_json_status_with_response / get_json_status: the class of a response
classify(code) ==
    IF code = 409 THEN POST_TASK_DELETED
    ELSE IF 200 <= code /\ code < 300 THEN POST_OK
    ELSE POST_RETRYABLE_FAIL

\* without `with request_lock`
AcquireUnlocked(t) == request_lock' = t

\* with request_lock: http.post(...) / http.get(...): the request is issued
Acquire(t) == request_lock = "free" /\ request_lock' = t

\* the response has arrived
Release(t) == request_lock = t /\ request_lock' = "free"

\* ------------------------------------------------------- _collect_new_logs
CoRead(t) ==
    /\ pc[t] = "co_read"
    /\ IF written - offset <= 0
       THEN /\ pc' = [pc EXCEPT ![t] = cret[t]]
            /\ cret' = [cret EXCEPT ![t] = None]
            /\ UNCHANGED <<chunk, row_status>>
       ELSE /\ chunk' = [chunk EXCEPT ![t] = written - offset]
            /\ row_status' = [row_status EXCEPT ![t] =
                                 IF task_deleted THEN "archived" ELSE "pending"]
            /\ Goto(t, "co_enq")
            /\ UNCHANGED cret
    /\ UNCHANGED <<smVars, qVars, ret, fret, batch, force, cnt, ack,
                   ev_i, ev_ret, drain_i, envVars, auxVars, supVars, histVars>>

CoEnq(t) ==
    /\ pc[t] = "co_enq"
    /\ queue' = enqueue(queue, next_seq, row_status[t])
    /\ next_seq' = next_seq + 1
    /\ offset' = offset + chunk[t]
    /\ pending_since' = IF row_status[t] = "pending" /\ pending_since = Unset
                        THEN 0 ELSE pending_since
    /\ pc' = [pc EXCEPT ![t] = cret[t]]
    /\ cret' = [cret EXCEPT ![t] = None]
    /\ chunk' = [chunk EXCEPT ![t] = 0]
    /\ row_status' = [row_status EXCEPT ![t] = None]
    /\ content' = enqueue_content(queue, content, next_seq, <<offset, chunk[t]>>)
    /\ late_rows' = IF transport_state = TASK_DELETED
                    THEN late_rows \cup {next_seq} ELSE late_rows
    /\ pending_age' = IF row_status[t] = "pending" /\ queue'[next_seq] # queue[next_seq]
                      THEN [pending_age EXCEPT ![next_seq] = 0] ELSE pending_age
    /\ UNCHANGED <<smVars, last_ack_seq, written, ret, fret, batch, force, cnt, ack,
                   ev_i, ev_ret, drain_i, envVars, retry_count, resume_ack, received, supVars, histVars>>

\* ------------------------------------------------------------- _flush_batch
FlushReturn(t) ==
    /\ pc' = [pc EXCEPT ![t] = fret[t]]
    /\ fret' = [fret EXCEPT ![t] = None]
    /\ force' = [force EXCEPT ![t] = FALSE]
    /\ batch' = [batch EXCEPT ![t] = << >>]
    /\ ack' = [ack EXCEPT ![t] = NoAck]

\* leave _flush_batch through a state-machine method (a tail call)
FlushTail(t, loc, c) ==
    /\ pc' = [pc EXCEPT ![t] = loc]
    /\ ret' = [ret EXCEPT ![t] = fret[t]]
    /\ cnt' = [cnt EXCEPT ![t] = c]
    /\ fret' = [fret EXCEPT ![t] = None]
    /\ force' = [force EXCEPT ![t] = FALSE]
    /\ batch' = [batch EXCEPT ![t] = << >>]
    /\ ack' = [ack EXCEPT ![t] = NoAck]

\* lines 1314-1318
FlCheck(t) ==
    /\ pc[t] = "fl_check"
    /\ IF offline \/ task_deleted \/ (~force[t] /\ next_retry_at > 0)
       THEN FlushReturn(t)
       ELSE Goto(t, "fl_count") /\ UNCHANGED <<fret, force, batch, ack>>
    /\ UNCHANGED <<smVars, qVars, ret, cret, cnt, chunk, row_status,
                   ev_i, ev_ret, drain_i, envVars, auxVars, supVars, histVars>>

\* lines 1320-1329
FlCount(t) ==
    /\ pc[t] = "fl_count"
    /\ LET pending_count == get_pending_count(queue)
           since == IF pending_since = Unset THEN 0 ELSE pending_since
       IN  IF pending_count <= 0
           THEN pending_since' = Unset /\ FlushReturn(t)
           ELSE IF ~force[t] /\ pending_count < batch_size
           THEN /\ pending_since' = since
                /\ IF since < batch_interval_s
                   THEN FlushReturn(t)
                   ELSE Goto(t, "fl_get") /\ UNCHANGED <<fret, force, batch, ack>>
           ELSE /\ Goto(t, "fl_get")
                /\ UNCHANGED <<pending_since, fret, force, batch, ack>>
    /\ UNCHANGED <<smVars, queue, last_ack_seq, next_seq, written, offset,
                   ret, cret, cnt, chunk, row_status,
                   ev_i, ev_ret, drain_i, envVars, auxVars, supVars, histVars>>

\* lines 1331-1333
FlGet(t) ==
    /\ pc[t] = "fl_get"
    /\ LET b == get_pending_batch(queue, batch_size)
       IN  IF b = << >>
           THEN FlushReturn(t)
           ELSE /\ batch' = [batch EXCEPT ![t] = b]
                /\ Goto(t, "fl_post")
                /\ UNCHANGED <<fret, force, ack>>
    /\ UNCHANGED <<smVars, qVars, ret, cret, cnt, chunk, row_status,
                   ev_i, ev_ret, drain_i, envVars, auxVars, supVars, histVars>>

\* lines 1335-1348: the batch POST is issued
FlPost(t) ==
    /\ pc[t] = "fl_post"
    /\ Acquire(t)
    /\ Goto(t, "fl_wait")
    /\ posts' = [s \in Seqs |->
                    IF s \in SeqSet(batch[t]) THEN Min(2, posts[s] + 1) ELSE posts[s]]
    /\ UNCHANGED <<smVars, qVars, ret, fret, cret, locVars,
                   circuit_max, stop, heartbeats, faults, budget, auxVars, supVars,
                   probe_failed, calls, fails_since_ok, giveup_fails_since_ok>>

\* the highest client_seq the server has been sent
MaxPosted == IF \E s \in Seqs : posts[s] > 0
             THEN CHOOSE s \in Seqs : posts[s] > 0 /\ \A r \in Seqs : posts[r] > 0 => r <= s
             ELSE 0

\* the batch POST is answered ok, with or without an ack_seq (the server
\* acknowledges nothing it has not been sent)
FlRespOk(t) ==
    /\ pc[t] = "fl_wait"
    /\ Release(t)
    /\ received' = received \cup {<<batch[t][i], content[batch[t][i]]>> : i \in 1..Len(batch[t])}
    /\ \E payload \in {NoAck} \cup (0..Max(last_ack_seq, MaxPosted)) :
          LET a == ack_seq_of(payload, batch[t])
              plain == a = batch[t][Len(batch[t])]
          IN  /\ plain \/ faults < budget.faults
              /\ faults' = IF plain THEN faults ELSE faults + 1
              /\ ack' = [ack EXCEPT ![t] = a]
    /\ Goto(t, "fl_mark")
    /\ UNCHANGED <<smVars, qVars, ret, fret, cret, batch, force, cnt, chunk, row_status,
                   ev_i, ev_ret, drain_i, circuit_max, stop, heartbeats, budget, content, retry_count, resume_ack, late_rows, pending_age, supVars, histVars>>

\* the batch POST is answered 409: _abandon_task_push, return
FlRespDeleted(t) ==
    /\ pc[t] = "fl_wait"
    /\ Release(t)
    /\ classify(409) = POST_TASK_DELETED
    /\ FlushTail(t, "ab_set", FALSE)
    /\ UNCHANGED <<smVars, qVars, cret, chunk, row_status,
                   ev_i, ev_ret, drain_i, circuit_max, stop, heartbeats, faults, budget, auxVars, supVars, histVars>>

\* the batch POST fails retryably
FlRespFail(t) ==
    /\ pc[t] = "fl_wait"
    /\ Release(t)
    /\ classify(500) = POST_RETRYABLE_FAIL
    /\ faults < budget.faults
    /\ faults' = faults + 1
    /\ Goto(t, "fl_failed")
    /\ UNCHANGED <<smVars, qVars, ret, fret, cret, locVars,
                   circuit_max, stop, heartbeats, budget, auxVars, supVars, histVars>>

\* line 1354: mark_sent_up_to
FlMark(t) ==
    /\ pc[t] = "fl_mark"
    /\ queue' = mark_sent_up_to(queue, ack[t])
    /\ pending_age' = unsent_ages(queue', pending_age)
    /\ Goto(t, "fl_ack")
    /\ UNCHANGED <<smVars, last_ack_seq, next_seq, pending_since, written, offset,
                   ret, fret, cret, locVars, envVars, content, retry_count, resume_ack,
                   received, late_rows, supVars, histVars>>

\* line 1355, right-hand side: max(self._last_ack_seq, ack_seq)
FlAckMax(t) ==
    /\ pc[t] = "fl_ack"
    /\ ack' = [ack EXCEPT ![t] = Max(last_ack_seq, ack[t])]
    /\ Goto(t, "fl_ack_set")
    /\ UNCHANGED <<smVars, qVars, ret, fret, cret, batch, force, cnt, chunk, row_status,
                   ev_i, ev_ret, drain_i, envVars, auxVars, supVars, histVars>>

\* line 1355, the assignment; line 1356: _mark_transport_success
FlAckSet(t) ==
    /\ pc[t] = "fl_ack_set"
    /\ last_ack_seq' = ack[t]
    /\ Call(t, "ms_set", "fl_since", FALSE)
    /\ UNCHANGED <<smVars, queue, next_seq, pending_since, written, offset, fret, cret,
                   batch, force, ack, chunk, row_status,
                   ev_i, ev_ret, drain_i, envVars, auxVars, supVars, histVars>>

\* lines 1357-1361
FlSince(t) ==
    /\ pc[t] = "fl_since"
    /\ pending_since' = IF get_pending_count(queue) > 0 THEN 0 ELSE Unset
    /\ FlushReturn(t)
    /\ UNCHANGED <<smVars, queue, last_ack_seq, next_seq, written, offset,
                   ret, cret, cnt, chunk, row_status,
                   ev_i, ev_ret, drain_i, envVars, auxVars, supVars, histVars>>

\* lines 1367-1372: mark_failed, then _mark_retryable_failure
FlFailed(t) ==
    /\ pc[t] = "fl_failed"
    /\ queue' = mark_failed(queue, batch[t])
    /\ FlushTail(t, "mf_get", flush_failure_counts)
    /\ retry_count' = mark_failed_retries(queue, retry_count, batch[t])
    /\ UNCHANGED <<smVars, last_ack_seq, next_seq, pending_since, written, offset,
                   cret, chunk, row_status, ev_i, ev_ret, drain_i, envVars, content, resume_ack, received, pending_age, late_rows, supVars, histVars>>

FlushStep(t) ==
    \/ FlCheck(t) \/ FlCount(t) \/ FlGet(t) \/ FlPost(t)
    \/ FlRespOk(t) \/ FlRespDeleted(t) \/ FlRespFail(t)
    \/ FlMark(t) \/ FlAckMax(t) \/ FlAckSet(t) \/ FlSince(t) \/ FlFailed(t)

\* --------------------------------------------------------- _run (thread "u")
\* while not self._stop.is_set(): self._collect_new_logs()
RunLoop ==
    /\ pc["u"] = "u_loop"
    /\ IF stop
       THEN Goto("u", "u_exit") /\ UNCHANGED cret
       ELSE Goto("u", "co_read") /\ cret' = [cret EXCEPT !["u"] = "u_gate"]
    /\ UNCHANGED <<smVars, qVars, ret, fret, locVars, envVars, auxVars, supVars, histVars>>

\* lines 1180-1183
RunGate ==
    /\ pc["u"] = "u_gate"
    /\ IF ~offline /\ ~task_deleted /\ next_retry_at = 0
       THEN /\ queue' = reset_failed_to_pending(queue)
            /\ Goto("u", "fl_check")
            /\ fret' = [fret EXCEPT !["u"] = "u_loop"]
       ELSE /\ Goto("u", "u_loop")
            /\ UNCHANGED <<queue, fret>>
    /\ UNCHANGED <<smVars, last_ack_seq, next_seq, pending_since, written, offset,
                   ret, cret, locVars, envVars, auxVars, supVars, histVars>>

\* ----------------------------------------------- _run_heartbeat (thread "h")
\* while not self._stop.wait(self._heartbeat_interval): the flag is set
HeartbeatExit ==
    /\ pc["h"] = "h_wait"
    /\ stop
    /\ Goto("h", "h_exit")
    /\ UNCHANGED <<smVars, qVars, ret, fret, cret, locVars, envVars, auxVars, supVars, histVars>>

\* the interval has passed: _send_heartbeat, lines 1222-1223
HeartbeatDue ==
    /\ pc["h"] = "h_wait"
    /\ ~stop
    /\ heartbeats < MaxHeartbeats
    /\ ~offline
    /\ Goto("h", "hb_post")
    /\ UNCHANGED <<smVars, qVars, ret, fret, cret, locVars, envVars, auxVars, supVars, histVars>>

\* the heartbeat POST is issued
HbPost ==
    /\ pc["h"] = "hb_post"
    /\ Acquire("h")
    /\ heartbeats' = heartbeats + 1
    /\ Goto("h", "hb_wait")
    /\ UNCHANGED <<smVars, qVars, ret, fret, cret, locVars,
                   circuit_max, stop, faults, budget, auxVars, supVars, histVars>>

\* lines 1236-1242
HbResp ==
    /\ pc["h"] = "hb_wait"
    /\ Release("h")
    /\ \E code \in {200, 409, 500} :
          CASE classify(code) = POST_OK ->
                  /\ Call("h", "ms_set", "h_wait", FALSE)
                  /\ UNCHANGED <<faults, probe_failed>>
            [] classify(code) = POST_TASK_DELETED ->
                  /\ Call("h", "ab_set", "h_wait", FALSE)
                  /\ UNCHANGED <<faults, probe_failed>>
            [] OTHER ->
                  /\ faults < budget.faults
                  /\ faults' = faults + 1
                  /\ Call("h", "mf_get", "h_wait", heartbeat_failure_counts)
                  /\ probe_failed' = TRUE
    /\ UNCHANGED <<smVars, qVars, fret, cret, batch, force, ack, chunk, row_status,
                   ev_i, ev_ret, drain_i, circuit_max, stop, heartbeats, budget, auxVars, supVars,
                   posts, calls, fails_since_ok, giveup_fails_since_ok>>

\* ------------------------------------------------------------------- child
\* the child writes output, which the supervisor appends to the log file
ChildWrite ==
    /\ pc["m"] \in {"m_new", "rs_post", "rs_wait", "rs_ack", "rs_rec", "m_threads",
                    "ev_post", "ev_wait", "m_run"}
       \/ (ret["m"] \in {"rs_ack", "rs_rec", "m_threads", "ev_post", "m_run"}
           /\ ev_ret \in {None, "m_run"})
    /\ written < budget.chunks
    /\ written' = written + 1
    /\ UNCHANGED <<smVars, queue, last_ack_seq, next_seq, pending_since, offset,
                   ctlVars, locVars, envVars, auxVars, supVars, histVars>>

\* ------------------------------------ start() / _resume_from_server_ack ("m")
\* start(): the session exists; lines 1192-1204: the GET is issued
\* without the GET
ResumePostSkipped ==
    /\ pc["m"] = "m_new"
    /\ Goto("m", "m_threads")
    /\ UNCHANGED <<smVars, qVars, ret, fret, cret, locVars, envVars, auxVars, supVars, histVars>>

ResumePost ==
    /\ pc["m"] = "m_new"
    /\ IF offline \/ task_deleted
       THEN Goto("m", "m_threads") /\ UNCHANGED <<request_lock, probes>>
       ELSE Acquire("m") /\ Goto("m", "rs_wait") /\ probes' = probes + 1
    /\ UNCHANGED <<smVars, qVars, ret, fret, cret, locVars,
                   circuit_max, stop, heartbeats, faults, budget, auxVars, histVars>>
    /\ UNCHANGED <<childVars, mainVars, cfgVars, uploader_started, offline_mode, elapsed,
                   signals, events, db_faults, resume_code>>

\* lines 1205-1216
ResumeResp ==
    /\ pc["m"] = "rs_wait"
    /\ Release("m")
    /\ \E code \in HttpCodes :
          /\ resume_code' = code
          /\ CASE classify(code) = POST_TASK_DELETED ->
                     /\ Call("m", "ab_set", "m_threads", FALSE)
                     /\ UNCHANGED <<ack, faults, probe_failed>>
               [] classify(code) = POST_OK ->
                     /\ \E a \in 0..MaxResumeAck : ack' = [ack EXCEPT !["m"] = a]
                     /\ Call("m", "ms_set", "rs_ack", FALSE)
                     /\ UNCHANGED <<faults, probe_failed>>
               [] classify(code) = POST_RETRYABLE_FAIL /\ code # 404 ->
                     /\ faults < budget.faults
                     /\ faults' = faults + 1
                     /\ Call("m", "mf_get", "rs_rec", resume_failure_counts)
                     /\ probe_failed' = TRUE
                     /\ UNCHANGED ack
               [] OTHER ->
                     /\ Goto("m", "rs_rec")
                     /\ UNCHANGED <<ret, cnt, ack, faults, probe_failed>>
    /\ UNCHANGED <<smVars, qVars, fret, cret, batch, force, chunk, row_status,
                   ev_i, ev_ret, drain_i, circuit_max, stop, heartbeats, budget, auxVars,
                   posts, calls, fails_since_ok, giveup_fails_since_ok>>
    /\ UNCHANGED <<childVars, mainVars, cfgVars, uploader_started, offline_mode, elapsed,
                   signals, events, db_faults, probes>>

\* line 1211
ResumeAck ==
    /\ pc["m"] = "rs_ack"
    /\ last_ack_seq' = ack["m"]
    /\ ack' = [ack EXCEPT !["m"] = NoAck]
    /\ Goto("m", "rs_rec")
    /\ UNCHANGED <<smVars, queue, next_seq, pending_since, written, offset,
                   ret, fret, cret, batch, force, cnt, chunk, row_status,
                   ev_i, ev_ret, drain_i, envVars, auxVars, supVars, histVars>>

\* lines 1218-1219
ResumeReconcile ==
    /\ pc["m"] = "rs_rec"
    /\ queue' = reconcile_with_server_ack(queue, last_ack_seq)
    /\ next_seq' = get_next_seq(queue', last_ack_seq + 1)
    /\ resume_ack' = last_ack_seq
    /\ Goto("m", "m_threads")
    /\ UNCHANGED <<smVars, last_ack_seq, pending_since, written, offset,
                   ret, fret, cret, locVars, envVars, content, retry_count, received, pending_age, late_rows, supVars, histVars>>

\* start(): the two workers are started; then main sends the start event
StartThreads ==
    /\ pc["m"] = "m_threads"
    /\ pc' = [pc EXCEPT !["m"] = "ev_post", !["u"] = "u_loop", !["h"] = "h_wait"]
    /\ ev_i' = 0
    /\ ev_ret' = "m_run"
    /\ uploader_started' = TRUE
    /\ resume_code' = 0
    /\ events' = Append(events, "start")
    /\ UNCHANGED <<smVars, qVars, ret, fret, cret, batch, force, cnt, ack, chunk,
                   row_status, drain_i, envVars, auxVars, histVars>>
    /\ UNCHANGED <<childVars, mainVars, cfgVars, offline_mode, elapsed,
                   signals, db_faults, probes>>

\* ----------------------------------------------------------- send_event ("m")
\* line 1852: event_type = "success" if exit_code == 0 else "failed"
final_event_type(code) == IF code = 0 THEN "success" ELSE "failed"

\* the event POST is issued
EvPost ==
    /\ pc["m"] = "ev_post"
    /\ Acquire("m")
    /\ Goto("m", "ev_wait")
    /\ UNCHANGED <<smVars, qVars, ret, fret, cret, locVars,
                   circuit_max, stop, heartbeats, faults, budget, auxVars, supVars, histVars>>

\* lines 1412-1426
EvResp ==
    /\ pc["m"] = "ev_wait"
    /\ Release("m")
    /\ \E code \in {200, 409, 500} :
          CASE classify(code) = POST_OK ->
                  /\ Call("m", "ms_set", ev_ret, FALSE)
                  /\ ev_i' = 0 /\ ev_ret' = None
                  /\ UNCHANGED <<faults, probe_failed>>
            [] classify(code) = POST_TASK_DELETED ->
                  /\ Call("m", "ab_set", ev_ret, FALSE)
                  /\ ev_i' = 0 /\ ev_ret' = None
                  /\ UNCHANGED <<faults, probe_failed>>
            [] OTHER ->
                  /\ faults < budget.faults
                  /\ faults' = faults + 1
                  /\ UNCHANGED probe_failed
                  /\ IF ev_i < EVENT_RETRIES - 1
                     THEN /\ Call("m", "mf_get", "ev_post", event_failure_counts)
                          /\ ev_i' = ev_i + 1
                          /\ UNCHANGED ev_ret
                     ELSE /\ Call("m", "mf_get", ev_ret, event_failure_counts)
                          /\ ev_i' = 0 /\ ev_ret' = None
    /\ UNCHANGED <<smVars, qVars, fret, cret, batch, force, ack, chunk, row_status,
                   drain_i, circuit_max, stop, heartbeats, budget, auxVars, supVars,
                   posts, calls, fails_since_ok, giveup_fails_since_ok>>

\* ------------------------------------------------------------------ stop() ("m")
\* the child has exited: self._stop.set()
StopSet ==
    /\ pc["m"] = "m_run"
    /\ stop' = TRUE
    /\ Goto("m", "st_join")
    /\ UNCHANGED <<smVars, qVars, ret, fret, cret, locVars,
                   circuit_max, request_lock, heartbeats, faults, budget, auxVars, supVars, histVars>>

\* join(timeout=5) returns: the worker has exited, or it is still in a request
\* (its own in flight, or waiting for the lock another request holds)
Joined(t, done) ==
    \/ pc[t] \in {done, "u_dead"}
    \/ pc[t] \in {"fl_wait", "hb_wait"}
    \/ pc[t] \in {"fl_post", "hb_post"} /\ request_lock # "free"

\* lines 1158-1162
StopJoin ==
    /\ pc["m"] = "st_join"
    /\ Joined("u", "u_exit")
    /\ Joined("h", "h_exit")
    /\ Goto("m", "co_read")
    /\ cret' = [cret EXCEPT !["m"] = "st_loop"]
    /\ UNCHANGED <<smVars, qVars, ret, fret, locVars, envVars, auxVars, supVars, histVars>>

\* lines 1163-1169: one iteration of the drain loop
StopDrain ==
    /\ pc["m"] = "st_loop"
    /\ IF drain_i >= DRAIN_ATTEMPTS \/ offline \/ task_deleted
       THEN /\ Goto("m", "st_final")
            /\ UNCHANGED <<queue, fret, force, drain_i>>
       ELSE /\ queue' = reset_failed_to_pending(queue)
            /\ IF get_unsent_count(queue') <= 0
               THEN /\ Goto("m", "st_final")
                    /\ UNCHANGED <<fret, force, drain_i>>
               ELSE /\ Goto("m", "fl_check")
                    /\ fret' = [fret EXCEPT !["m"] = "st_loop"]
                    /\ force' = [force EXCEPT !["m"] = TRUE]
                    /\ drain_i' = drain_i + 1
    /\ UNCHANGED <<smVars, last_ack_seq, next_seq, pending_since, written, offset,
                   ret, cret, batch, cnt, ack, chunk, row_status, ev_i, ev_ret,
                   envVars, auxVars, supVars, histVars>>

\* lines 1171-1174, then main: the final event unless uploader.is_offline()
StopFinal ==
    /\ pc["m"] = "st_final"
    /\ queue' = reset_failed_to_pending(queue)
    /\ offline_mode' = (offline_mode \/ is_offline(transport_state))
    /\ IF offline_mode'
       THEN Goto("m", "m_done") /\ UNCHANGED <<ev_i, ev_ret, events>>
       ELSE /\ Goto("m", "ev_post") /\ ev_i' = 0 /\ ev_ret' = "m_done"
            /\ events' = Append(events, final_event_type(exit_code))
    /\ UNCHANGED <<smVars, last_ack_seq, next_seq, pending_since, written, offset,
                   ret, fret, cret, batch, force, cnt, ack, chunk, row_status,
                   drain_i, envVars, auxVars, histVars>>
    /\ UNCHANGED <<childVars, mainVars, cfgVars, uploader_started, elapsed,
                   signals, db_faults, resume_code, probes>>

\* --------------------------------------------------------------------- time
\* TickSeconds pass
Tick ==
    /\ next_retry_at > 0 \/ (pending_since # Unset /\ pending_since < batch_interval_s)
    /\ next_retry_at' = Max(0, next_retry_at - TickSeconds)
    /\ pending_since' = IF pending_since = Unset THEN Unset
                        ELSE Min(batch_interval_s, pending_since + TickSeconds)
    /\ UNCHANGED <<transport_state, transient_offline, offline, task_deleted,
                   circuit_count, retry_backoff_seconds>>
    /\ pending_age' = [s \in Seqs |->
                          IF pending_age[s] = Unset THEN Unset
                          ELSE Min(batch_interval_s, pending_age[s] + TickSeconds)]
    /\ UNCHANGED <<queue, last_ack_seq, next_seq, written, offset>>
    /\ UNCHANGED <<ctlVars, locVars, envVars, content, retry_count, resume_ack,
                   received, late_rows, supVars, histVars>>

\* ------------------------------------- the public methods, called in sequence
\* uploader.mark_retryable_failure(source, count_towards_giveup=c)
CallMarkRetryableFailure(c) ==
    /\ pc["d"] = "idle" /\ calls < MaxCalls
    /\ Call("d", "mf_get", "idle", c)
    /\ calls' = calls + 1
    /\ fails_since_ok' = fails_since_ok + 1
    /\ giveup_fails_since_ok' = giveup_fails_since_ok + (IF c THEN 1 ELSE 0)
    /\ probe_failed' = (probe_failed \/ c)
    /\ UNCHANGED <<smVars, qVars, fret, cret, batch, force, ack, chunk, row_status,
                   ev_i, ev_ret, drain_i, envVars, auxVars, supVars, posts>>

\* uploader.mark_transport_success(source)
CallMarkTransportSuccess ==
    /\ pc["d"] = "idle" /\ calls < MaxCalls
    /\ Call("d", "ms_set", "idle", FALSE)
    /\ calls' = calls + 1
    /\ fails_since_ok' = 0
    /\ giveup_fails_since_ok' = 0
    /\ UNCHANGED <<smVars, qVars, fret, cret, batch, force, ack, chunk, row_status,
                   ev_i, ev_ret, drain_i, envVars, auxVars, supVars, posts, probe_failed>>

\* uploader.mark_task_deleted(source)
CallMarkTaskDeleted ==
    /\ pc["d"] = "idle" /\ calls < MaxCalls
    /\ Call("d", "ab_set", "idle", FALSE)
    /\ calls' = calls + 1
    /\ UNCHANGED <<smVars, qVars, fret, cret, batch, force, ack, chunk, row_status,
                   ev_i, ev_ret, drain_i, envVars, auxVars, supVars, posts, probe_failed,
                   fails_since_ok, giveup_fails_since_ok>>

InitSM ==
    /\ InitUploader
    /\ InitPublishing
    /\ InitAsciiLog
    /\ circuit_max \in 1..MaxCircuit
    /\ budget = [chunks |-> 0, faults |-> 0]
    /\ pc = [t \in Threads |-> IF t = "d" THEN "idle" ELSE "off"]

NextSM ==
    \/ \E c \in BOOLEAN : CallMarkRetryableFailure(c)
    \/ CallMarkTransportSuccess
    \/ CallMarkTaskDeleted
    \/ StateMachineStep("d")
    \/ Tick

\* the state machine driven through its public methods, one call at a time
SpecSM == InitSM /\ [][NextSM]_vars

\* ------------------------------------ the queue's methods, called in sequence
\* The caller "d" applies LogQueueStore's methods to the rows of one task with
\* arguments of its choice; pc["d"] names the method that has just returned,
\* batch["d"], ack["d"] and row_status["d"] hold the arguments it was given.
QRows     == 1..Min(MaxRows, QMax)
QContents == {<<0, 1>>, <<1, 1>>}

QCall(method, client_seqs, ack_seq, status) ==
    /\ pc["d"] \in {"q_new", "q_enqueue", "q_mark_sent", "q_mark_failed",
                    "q_reset", "q_reconcile", "q_archive"}
    /\ pc' = [pc EXCEPT !["d"] = method]
    /\ batch' = [batch EXCEPT !["d"] = client_seqs]
    /\ ack' = [ack EXCEPT !["d"] = ack_seq]
    /\ row_status' = [row_status EXCEPT !["d"] = status]
    /\ UNCHANGED <<smVars, last_ack_seq, next_seq, pending_since, written, offset,
                   ret, fret, cret, force, cnt, chunk, ev_i, ev_ret, drain_i,
                   envVars, histVars>>

QEnqueue ==
    \E client_seq \in QRows, status \in {"pending", "archived"}, text \in QContents :
        /\ QCall("q_enqueue", <<client_seq>>, NoAck, status)
        /\ queue' = enqueue(queue, client_seq, status)
        /\ content' = enqueue_content(queue, content, client_seq, text)
        /\ UNCHANGED <<retry_count, resume_ack, received, pending_age, late_rows, supVars>>

QMarkSentUpTo ==
    \E ack_seq \in 0..Min(MaxRows, QMax) :
        /\ QCall("q_mark_sent", << >>, ack_seq, None)
        /\ queue' = mark_sent_up_to(queue, ack_seq)
        /\ UNCHANGED <<content, retry_count, resume_ack, received, pending_age, late_rows, supVars>>

QMarkFailed ==
    \E S \in SUBSET QRows :
        /\ \A s \in S : retry_count[s] < MaxRetries
        /\ LET client_seqs == AscendingFrom(S, 1, QMax)
           IN  /\ QCall("q_mark_failed", client_seqs, NoAck, None)
               /\ queue' = mark_failed(queue, client_seqs)
               /\ retry_count' = mark_failed_retries(queue, retry_count, client_seqs)
        /\ UNCHANGED <<content, resume_ack, received, pending_age, late_rows, supVars>>

QResetFailedToPending ==
    /\ QCall("q_reset", << >>, NoAck, None)
    /\ queue' = reset_failed_to_pending(queue)
    /\ UNCHANGED <<content, retry_count, resume_ack, received, pending_age, late_rows, supVars>>

QReconcile ==
    \E last_ack \in 0..Min(MaxRows, QMax) :
        /\ QCall("q_reconcile", << >>, last_ack, None)
        /\ queue' = reconcile_with_server_ack(queue, last_ack)
        /\ UNCHANGED <<content, retry_count, resume_ack, received, pending_age, late_rows, supVars>>

QArchiveTask ==
    /\ QCall("q_archive", << >>, NoAck, None)
    /\ queue' = archive_task(queue)
    /\ UNCHANGED <<content, retry_count, resume_ack, received, pending_age, late_rows, supVars>>

InitQueue ==
    /\ InitUploader
    /\ InitPublishing
    /\ InitAsciiLog
    /\ circuit_max = 1
    /\ budget = [chunks |-> 0, faults |-> 0]
    /\ pc = [t \in Threads |-> IF t = "d" THEN "q_new" ELSE "off"]

NextQueue ==
    \/ QEnqueue \/ QMarkSentUpTo \/ QMarkFailed \/ QResetFailedToPending
    \/ QReconcile \/ QArchiveTask

\* the queue of one task driven through its methods, one call at a time
SpecQueue == InitQueue /\ [][NextQueue]_vars

\* --------------------------------------- start() for a task that has rows
\* An uploader is started for a task whose queue holds the rows an earlier
\* uploader of the same task_id left: until start() is called the queue's
\* methods are applied as in SpecQueue, then _resume_from_server_ack runs.
InitResume ==
    /\ InitUploader
    /\ InitPublishing
    /\ InitAsciiLog
    /\ circuit_max \in 1..MaxCircuit
    /\ budget = [chunks |-> 0, faults |-> 1]
    /\ pc = [t \in Threads |-> IF t = "d" THEN "q_new" ELSE IF t = "m" THEN "m_new" ELSE "off"]

NextResume ==
    \/ pc["m"] = "m_new" /\ QEnqueue
    \/ pc["m"] = "m_new" /\ QMarkSentUpTo
    \/ pc["m"] = "m_new" /\ QMarkFailed
    \/ pc["m"] = "m_new" /\ QResetFailedToPending
    \/ pc["m"] = "m_new" /\ QReconcile
    \/ pc["m"] = "m_new" /\ QArchiveTask
    \/ ResumePost \/ ResumeResp \/ ResumeAck \/ ResumeReconcile
    \/ StateMachineStep("m")

\* the resume probe of an uploader started on an existing queue
SpecResume == InitResume /\ [][NextResume]_vars

\* ------------------------------------------------------------- the whole agent
Workers == {"m", "u", "h"}

\* a run during which no heartbeat falls due
NextUpload ==
    \/ ChildWrite
    \/ ResumePost \/ ResumeResp \/ ResumeAck \/ ResumeReconcile \/ StartThreads
    \/ EvPost \/ EvResp
    \/ StopSet \/ StopJoin \/ StopDrain \/ StopFinal
    \/ RunLoop \/ RunGate
    \/ HeartbeatExit
    \/ \E t \in {"m", "u"} : CoRead(t) \/ CoEnq(t)
    \/ \E t \in {"m", "u"} : FlushStep(t)
    \/ \E t \in {"m", "u"} : StateMachineStep(t)
    \/ Tick

InitUpload ==
    /\ InitUploader
    /\ InitPublishing
    /\ InitAsciiLog
    /\ circuit_max \in 1..MaxCircuit
    /\ budget = [chunks |-> MaxChunks, faults |-> MaxFaults]
    /\ pc = [t \in Threads |-> IF t = "m" THEN "m_new" ELSE "off"]

\* supervisor and uploader worker of one agent
SpecUpload == InitUpload /\ [][NextUpload]_vars

InitDrain ==
    /\ InitUploader
    /\ InitPublishing
    /\ InitAsciiLog
    /\ circuit_max \in 1..MaxCircuit
    /\ budget = [chunks |-> DrainChunks, faults |-> DrainFaults]
    /\ pc = [t \in Threads |-> IF t = "m" THEN "m_new" ELSE "off"]

\* supervisor and uploader worker of one agent, with more output to drain
SpecDrain == InitDrain /\ [][NextUpload]_vars

Init ==
    /\ InitUploader
    /\ InitPublishing
    /\ InitAsciiLog
    /\ circuit_max \in 1..MaxCircuit
    /\ budget = [chunks |-> HbChunks, faults |-> HbFaults]
    /\ pc = [t \in Threads |-> IF t = "m" THEN "m_new" ELSE "off"]

Next ==
    \/ NextUpload
    \/ HeartbeatDue \/ HbPost \/ HbResp
    \/ StateMachineStep("h")

\* supervisor, uploader worker and heartbeat worker of one agent
Spec == Init /\ [][Next]_vars

\* ---------------------------------------------- the agent while the child runs
MainStep ==
    \/ ResumePost \/ ResumeResp \/ ResumeAck \/ ResumeReconcile \/ StartThreads
    \/ EvPost \/ EvResp
    \/ StateMachineStep("m")

UploaderStep ==
    \/ RunLoop \/ RunGate
    \/ CoRead("u") \/ CoEnq("u")
    \/ FlushStep("u")
    \/ StateMachineStep("u")

HeartbeatStep ==
    \/ HeartbeatDue \/ HbPost \/ HbResp
    \/ StateMachineStep("h")

NextLive == ChildWrite \/ MainStep \/ UploaderStep \/ HeartbeatStep \/ Tick

InitLive ==
    /\ InitUploader
    /\ InitPublishing
    /\ InitAsciiLog
    /\ circuit_max \in 1..MaxCircuit
    /\ budget = [chunks |-> MaxChunks, faults |-> MaxFaults]
    /\ pc = [t \in Threads |-> IF t = "m" THEN "m_new" ELSE "off"]

\* ------------------------------------------- the agent of a child writing bytes
\* every stream of MaxBytes bytes: well-formed UTF-8 or not
Streams == [1..MaxBytes -> Bytes]

InitIngest ==
    /\ InitUploader
    /\ InitPublishing
    /\ log_bytes \in Streams
    /\ circuit_max = 1
    /\ budget = [chunks |-> MaxBytes, faults |-> 1]
    /\ pc = [t \in Threads |-> IF t = "m" THEN "m_new" ELSE "off"]

NextIngest == ChildWrite \/ MainStep \/ UploaderStep \/ Tick

\* supervisor and uploader worker while the child runs and writes any bytes
SpecIngest == InitIngest /\ [][NextIngest]_vars

\* every thread keeps running and time keeps passing
Fairness ==
    /\ WF_vars(MainStep)
    /\ WF_vars(UploaderStep)
    /\ WF_vars(HeartbeatStep)
    /\ WF_vars(Tick)

\* the agent of a child that keeps running, its threads scheduled fairly
SpecLive == InitLive /\ [][NextLive]_vars /\ Fairness

\* ------------------------------------------------------ the supervisor, main()
\* os.WIFEXITED, os.WEXITSTATUS, os.WIFSIGNALED, os.WTERMSIG on a wait status
WIFEXITED(status)   == status % 128 = 0
WEXITSTATUS(status) == (status \div 256) % 256
WIFSIGNALED(status) == status % 128 \notin {0, 127}
WTERMSIG(status)    == status % 128

EXIT_127     == 127 * 256  \* wait status of os._exit(127) after a failed exec
\* wait statuses of a command that ran: exit(0), exit(3), killed by SIGTERM
ChildStatuses == {0 * 256, 3 * 256, 15}

\* lines 1818-1821: exit_code after waitpid returned `status`
exit_code_of(status, old_code) ==
    IF WIFEXITED(status) THEN WEXITSTATUS(status)
    ELSE IF WIFSIGNALED(status) THEN 128 + WTERMSIG(status)
    ELSE old_code

\* without the `if not exec_ok: return`
publish_due_unconfirmed(ok, t) == t >= PUBLISH_GRACE_SECONDS

\* maybe_publish, lines 1701-1704: exec is confirmed and the grace is over
publish_due(ok, t) == ok /\ t >= PUBLISH_GRACE_SECONDS

\* the agent process exists
AgentAlive == pc["m"] \notin {"sup_exit", "sup_killed", "sup_crash"}

\* the process ends: its daemon threads end with it
ExitProcess(loc) ==
    pc' = [t \in Threads |-> IF t = "m" THEN loc
                             ELSE IF pc[t] = "off" \/ t = "d" THEN pc[t] ELSE "gone"]

\* pid = os.fork(), line 1662
SupFork ==
    /\ pc["m"] = "sup_fork"
    /\ child' = "forked"
    /\ Goto("m", "sup_signal")
    /\ UNCHANGED <<smVars, qVars, ret, fret, cret, locVars, envVars, auxVars, histVars>>
    /\ UNCHANGED <<wstatus, exec_pipe, pty, died_at, mainVars, cfgVars, uploader_started,
                   offline_mode, elapsed, signals, events, db_faults, resume_code, probes>>

\* signal.signal(SIGINT/SIGTERM, handle_signal), lines 1748-1749
SupInstall ==
    /\ pc["m"] = "sup_signal"
    /\ handler' = "forward"
    /\ Goto("m", "m_run")
    /\ UNCHANGED <<smVars, qVars, ret, fret, cret, locVars, envVars, auxVars, histVars>>
    /\ UNCHANGED <<childVars, exec_checked, exec_ok, published, child_terminated, exit_code,
                   notified, cfgVars, uploader_started, offline_mode, elapsed, signals, events,
                   db_faults, resume_code, probes>>

\* the child, lines 1663-1688: execvp succeeds (exec_w closes: EOF on exec_r),
\* or it fails: the errno is written to the pipe and the child exits 127
ChildExec ==
    /\ AgentAlive
    /\ child = "forked"
    /\ \/ child' = "running" /\ exec_pipe' = "eof" /\ UNCHANGED <<wstatus, pty, died_at>>
       \/ /\ child' = "zombie" /\ exec_pipe' = "errno"
          /\ wstatus' = EXIT_127 /\ pty' = "eof" /\ died_at' = elapsed
    /\ UNCHANGED <<smVars, qVars, ctlVars, locVars, envVars, auxVars, histVars>>
    /\ UNCHANGED <<mainVars, cfgVars, uploader_started, offline_mode, elapsed, signals, events,
                   db_faults, resume_code, probes>>

\* the child terminates, by exit or by a signal
ChildExit ==
    /\ AgentAlive
    /\ child = "running"
    /\ child' = "zombie"
    /\ \E status \in ChildStatuses : wstatus' = status
    /\ died_at' = elapsed
    /\ UNCHANGED <<smVars, qVars, ctlVars, locVars, envVars, auxVars, histVars>>
    /\ UNCHANGED <<exec_pipe, pty, mainVars, cfgVars, uploader_started, offline_mode, elapsed,
                   signals, events, db_faults, resume_code, probes>>

\* the last process holding the slave side of the pty closes it (the child
\* itself at its exit, or a process it left behind, later)
PtyClose ==
    /\ AgentAlive
    /\ child \in {"running", "zombie", "reaped"}
    /\ pty = "open"
    /\ pty' = "eof"
    /\ UNCHANGED <<smVars, qVars, ctlVars, locVars, envVars, auxVars, histVars>>
    /\ UNCHANGED <<child, wstatus, exec_pipe, died_at, mainVars, cfgVars, uploader_started,
                   offline_mode, elapsed, signals, events, db_faults, resume_code, probes>>

\* time passes
GraceTick ==
    /\ AgentAlive
    /\ elapsed < PUBLISH_GRACE_SECONDS
    /\ elapsed' = elapsed + 1
    /\ UNCHANGED <<smVars, qVars, ctlVars, locVars, envVars, auxVars, histVars>>
    /\ UNCHANGED <<childVars, mainVars, cfgVars, uploader_started, offline_mode,
                   signals, events, db_faults, resume_code, probes>>

\* main is in the read loop, lines 1755-1806
InLoop == pc["m"] = "m_run" /\ ~child_terminated

\* lines 1775-1789: exec_r is readable
SupExecCheck ==
    /\ InLoop
    /\ ~exec_checked /\ exec_pipe # "open"
    /\ exec_checked' = TRUE
    /\ exec_ok' = (exec_pipe = "eof")
    /\ UNCHANGED <<smVars, qVars, ctlVars, locVars, envVars, auxVars, histVars>>
    /\ UNCHANGED <<childVars, published, child_terminated, exit_code, handler, notified,
                   cfgVars, uploader_started, offline_mode, elapsed, signals, events, db_faults,
                   resume_code, probes>>

\* maybe_publish, lines 1699-1725: uploader.start(), then the start event
SupPublish ==
    /\ InLoop
    /\ exec_checked \/ exec_pipe = "open"
    /\ publish_due(exec_ok, elapsed)
    /\ ~published
    /\ published' = TRUE
    /\ IF offline_mode THEN UNCHANGED pc ELSE Goto("m", "m_new")
    /\ UNCHANGED <<smVars, qVars, ret, fret, cret, locVars, envVars, auxVars, histVars>>
    /\ UNCHANGED <<childVars, exec_checked, exec_ok, child_terminated, exit_code, handler,
                   notified, cfgVars, uploader_started, offline_mode, elapsed, signals, events,
                   db_faults, resume_code, probes>>

\* lines 1793-1806: output of the child is read and appended to the log file
SupRead ==
    /\ InLoop
    /\ exec_checked \/ exec_pipe = "open"
    /\ published \/ ~publish_due(exec_ok, elapsed)
    /\ pty = "open" /\ child \in {"running", "zombie"}
    /\ written < budget.chunks
    /\ written' = written + 1
    /\ UNCHANGED <<smVars, queue, last_ack_seq, next_seq, pending_since, offset,
                   ctlVars, locVars, envVars, auxVars, supVars, histVars>>

\* lines 1795-1811: the read gives EOF; the loop ends and the finally clause
\* restores the original signal handlers
SupEof ==
    /\ InLoop
    /\ exec_checked \/ exec_pipe = "open"
    /\ published \/ ~publish_due(exec_ok, elapsed)
    /\ pty = "eof"
    /\ handler' = "original"
    /\ Goto("m", "sup_wait")
    /\ UNCHANGED <<smVars, qVars, ret, fret, cret, locVars, envVars, auxVars, histVars>>
    /\ UNCHANGED <<childVars, exec_checked, exec_ok, published, child_terminated, exit_code,
                   notified, cfgVars, uploader_started, offline_mode, elapsed, signals, events,
                   db_faults, resume_code, probes>>

\* lines 1813-1823: os.waitpid(pid, 0) returns once the child has terminated
SupWait ==
    /\ pc["m"] = "sup_wait"
    /\ child = "zombie"
    /\ child' = "reaped"
    /\ child_terminated' = TRUE
    /\ exit_code' = exit_code_of(wstatus, exit_code)
    /\ Goto("m", "sup_late")
    /\ UNCHANGED <<smVars, qVars, ret, fret, cret, locVars, envVars, auxVars, histVars>>
    /\ UNCHANGED <<wstatus, exec_pipe, pty, died_at, exec_checked, exec_ok, published,
                   handler, notified, cfgVars, uploader_started, offline_mode, elapsed,
                   signals, events, db_faults, resume_code, probes>>

\* lines 1829-1840: the task is published late; otherwise on to line 1843
SupLatePublish ==
    /\ pc["m"] = "sup_late"
    /\ IF ~published /\ ~offline_mode /\ exec_ok /\ elapsed >= PUBLISH_GRACE_SECONDS
       THEN published' = TRUE /\ Goto("m", "m_new")
       ELSE /\ UNCHANGED published
            /\ IF uploader_started THEN Goto("m", "m_run") ELSE Goto("m", "m_done")
    /\ UNCHANGED <<smVars, qVars, ret, fret, cret, locVars, envVars, auxVars, histVars>>
    /\ UNCHANGED <<childVars, exec_checked, exec_ok, child_terminated, exit_code, handler,
                   notified, cfgVars, uploader_started, offline_mode, elapsed, signals, events,
                   db_faults, resume_code, probes>>

\* lines 1843-1844: uploader.stop() once the child is reaped
SupStop == child_terminated /\ StopSet

\* lines 1861-1882: the notification email in offline mode, then sys.exit
SupNotify ==
    /\ pc["m"] = "m_done"
    /\ notified' = (offline_mode /\ email_enabled)
    /\ ExitProcess("sup_exit")
    /\ UNCHANGED <<smVars, qVars, ret, fret, cret, locVars, envVars, auxVars, histVars>>
    /\ UNCHANGED <<childVars, exec_checked, exec_ok, published, child_terminated, exit_code,
                   handler, cfgVars, uploader_started, offline_mode, elapsed, signals, events,
                   db_faults, resume_code, probes>>

\* SIGINT or SIGTERM reaches the agent: handle_signal (lines 1731-1736)
\* forwards it to the child; under the original disposition SIGTERM ends the
\* process and SIGINT raises KeyboardInterrupt, which no handler catches
Signal ==
    /\ AgentAlive
    /\ signals < MaxSignals
    /\ signals' = signals + 1
    /\ IF handler = "forward" THEN UNCHANGED pc ELSE ExitProcess("sup_killed")
    /\ UNCHANGED <<smVars, qVars, ret, fret, cret, locVars, envVars, auxVars, histVars>>
    /\ UNCHANGED <<childVars, mainVars, cfgVars, uploader_started, offline_mode, elapsed,
                   db_faults, resume_code, probes, events>>

\* self._queue.enqueue(...) raises (line 1300): nothing catches it in
\* _collect_new_logs, _run or stop(), so the worker thread ends, and in stop()
\* the exception leaves main
CoEnqRaise(t) ==
    /\ pc[t] = "co_enq"
    /\ db_faults < MaxDbFaults
    /\ db_faults' = db_faults + 1
    /\ IF t = "m" THEN ExitProcess("sup_crash") ELSE Goto(t, "u_dead")
    /\ cret' = [cret EXCEPT ![t] = None]
    /\ chunk' = [chunk EXCEPT ![t] = 0]
    /\ row_status' = [row_status EXCEPT ![t] = None]
    /\ UNCHANGED <<smVars, qVars, ret, fret, batch, force, cnt, ack, ev_i, ev_ret, drain_i,
                   envVars, auxVars, histVars>>
    /\ UNCHANGED <<childVars, mainVars, cfgVars, uploader_started, offline_mode, elapsed,
                   signals, events, resume_code, probes>>

\* the exit status of the agent process: sys.exit(exit_code), or 1 when an
\* exception left main
AgentStatus == IF pc["m"] = "sup_crash" THEN 1 ELSE exit_code

\* main before the fork (lines 1641-1651)
InitAgent ==
    /\ InitUploader
    /\ child = "none" /\ wstatus = Unset /\ exec_pipe = "open" /\ pty = "open"
    /\ died_at = Unset
    /\ exec_checked = FALSE /\ exec_ok = FALSE
    /\ published = FALSE /\ uploader_started = FALSE
    /\ child_terminated = FALSE
    /\ exit_code = 1
    /\ handler = "original"
    /\ notified = FALSE
    /\ force_offline \in BOOLEAN /\ offline_mode = force_offline
    /\ InitAsciiLog
    /\ email_enabled \in BOOLEAN
    /\ elapsed = 0
    /\ signals = 0 /\ db_faults = 0
    /\ events = << >>
    /\ circuit_max = 1
    /\ budget = [chunks |-> AgentChunks, faults |-> AgentFaults]
    /\ pc = [t \in Threads |-> IF t = "m" THEN "sup_fork" ELSE "off"]

SupervisorStep ==
    \/ SupFork \/ SupInstall
    \/ SupExecCheck \/ SupPublish \/ SupRead \/ SupEof
    \/ SupWait \/ SupLatePublish \/ SupStop \/ SupNotify

ChildStep == ChildExec \/ ChildExit \/ PtyClose

NextAgent ==
    \/ SupervisorStep
    \/ ChildStep
    \/ GraceTick
    \/ ResumePost \/ ResumeResp \/ ResumeAck \/ ResumeReconcile \/ StartThreads
    \/ EvPost \/ EvResp
    \/ StopJoin \/ StopDrain \/ StopFinal
    \/ RunLoop \/ RunGate
    \/ HeartbeatExit
    \/ \E t \in {"m", "u"} : CoRead(t) \/ CoEnq(t)
    \/ \E t \in {"m", "u"} : FlushStep(t)
    \/ \E t \in {"m", "u"} : StateMachineStep(t)
    \/ AgentAlive /\ Tick

\* the agent from the fork to its exit
SpecAgent == InitAgent /\ [][NextAgent]_vars

NextAgentFaulty ==
    \/ NextAgent
    \/ Signal
    \/ \E t \in {"m", "u"} : CoEnqRaise(t)

\* the same agent, online and without the email notifier
InitAgentFaulty == InitAgent /\ ~force_offline /\ ~email_enabled

\* the agent from the fork to its exit, with signals and queue errors
SpecAgentFaulty == InitAgentFaulty /\ [][NextAgentFaulty]_vars

\* ====================================================================== claims

GiveUpThreshold ==
    pc["d"] = "idle" /\ transport_state # TASK_DELETED =>
        /\ (transport_state = OFFLINE_GIVEUP) <=> (giveup_fails_since_ok >= circuit_max)
        /\ (transport_state = ONLINE) <=> (fails_since_ok = 0)
        /\ transport_state \in {ONLINE, RETRYING, OFFLINE_GIVEUP}

\* with N = 2: give-up at the second counting failure after an earlier ok
GiveUpThresholdWitness ==
    /\ pc["d"] = "idle"
    /\ circuit_max = 2
    /\ transport_state = OFFLINE_GIVEUP
    /\ giveup_fails_since_ok = circuit_max
    /\ calls > fails_since_ok

\* C9: a task-deleted signal moves the transport state to task_deleted from
\* every other state, offline_giveup included; is_task_deleted() and
\* is_offline() are then both true.
TaskDeletedFromEveryState ==
    [][pc["d"] = "ab_set" /\ pc'["d"] # "ab_set" =>
          /\ transport_state' = TASK_DELETED
          /\ is_task_deleted(transport_state')
          /\ is_offline(transport_state')]_vars

\* the state became task_deleted while the flags are still those of offline_giveup
TaskDeletedFromGiveUpWitness ==
    /\ pc["d"] = "ab_sync"
    /\ transport_state = TASK_DELETED
    /\ offline /\ ~task_deleted

\* the delay the schedule 5, 10, 20, 40, 60, 60, ... gives the k-th failure
BackoffDelay(k) == Min(RETRY_BACKOFF_BASE_SECONDS * 2^(k - 1), RETRY_BACKOFF_MAX_SECONDS)

\* C10: the k-th consecutive retryable failure since the last ok delays the
\* next attempt by min(5 * 2^(k-1), 60) seconds, and backoff_seconds stays
\* within [5, 60].
BackoffSchedule ==
    /\ [](retry_backoff_seconds \in
            RETRY_BACKOFF_BASE_SECONDS..RETRY_BACKOFF_MAX_SECONDS)
    /\ [][pc["d"] = "mf_backoff" /\ pc'["d"] # "mf_backoff" =>
            next_retry_at' = BackoffDelay(fails_since_ok)]_vars

\* the fifth failure in a row has set a delay of 60 s (5, 10, 20, 40, 60)
BackoffScheduleWitness ==
    /\ pc["d"] = "idle"
    /\ fails_since_ok = 5
    /\ next_retry_at = RETRY_BACKOFF_MAX_SECONDS
    /\ transport_state = RETRYING

\* C7: as long as neither a heartbeat nor the resume probe has failed, the
\* give-up counter stays 0 and the state never becomes offline_giveup, whatever
\* batch uploads and event reports fail.
BatchFailuresNeverGiveUp ==
    ~probe_failed => circuit_count = 0 /\ transport_state # OFFLINE_GIVEUP

\* a batch upload has failed: its row is failed, the state retrying, backoff advanced
BatchFailuresNeverGiveUpWitness ==
    /\ ~probe_failed
    /\ \E s \in Seqs : queue[s] = "failed"
    /\ transport_state = RETRYING
    /\ next_retry_at > 0
    /\ retry_backoff_seconds > RETRY_BACKOFF_BASE_SECONDS

\* every request so far was answered with a plain ok
AllAnsweredOk ==
    /\ faults = 0
    /\ transport_state # TASK_DELETED
    /\ \A t \in Threads : pc[t] # "ab_set"

\* C3: while every request has been answered with a plain ok, no client_seq is
\* carried by more than one batch POST, and at the end of the run every row
\* was carried by exactly one.
ExactlyOnceWithoutFailures ==
    AllAnsweredOk =>
        /\ \A s \in Seqs : posts[s] <= 1
        /\ pc["m"] = "m_done" /\ pc["u"] = "u_exit" =>
              \A s \in Seqs : queue[s] # "none" => posts[s] = 1

\* batch b is ascending and skips no unacknowledged row of queue q
Ascending(b) == \A i \in 1..Len(b) : \A j \in 1..Len(b) : i < j => b[i] < b[j]

InOrder(b, q) ==
    /\ Ascending(b)
    /\ \A s \in SeqSet(b) : \A r \in Seqs :
          r < s /\ q[r] \in {"pending", "failed"} => r \in SeqSet(b)

\* C1: a batch POST carries ascending client_seqs, and with every row it
\* carries also every unacknowledged (pending or failed) row of lower client_seq.
BatchesInOrder ==
    [][\A t \in Threads :
          pc[t] = "fl_post" /\ pc'[t] = "fl_wait" => InOrder(batch[t], queue)]_vars

\* C4: once the transport state is task_deleted, neither the uploader worker
\* nor the heartbeat worker issues an HTTP request.
NoRequestAfterTaskDeleted ==
    [][transport_state = TASK_DELETED =>
          /\ ~(pc["u"] = "fl_post" /\ pc'["u"] = "fl_wait")
          /\ ~(pc["h"] = "hb_post" /\ pc'["h"] = "hb_wait")]_vars

\* C6: once the transport state is offline_giveup, nothing changes it back to
\* online or retrying.
OfflineGiveUpFinal ==
    [][transport_state = OFFLINE_GIVEUP =>
          transport_state' \notin {ONLINE, RETRYING}]_vars

\* C2: if from some point on the state is neither offline_giveup nor
\* task_deleted (and requests succeed: at most budget.faults responses are
\* failures), every row enqueued as pending is eventually posted and marked sent.
AtLeastOnce ==
    <>[](transport_state \notin {OFFLINE_GIVEUP, TASK_DELETED}) =>
        \A s \in Seqs :
            (queue[s] = "pending") ~> (queue[s] = "sent" /\ posts[s] >= 1)

\* C11: the success notification of an ok event report (send_event's call of
\* mark_transport_success, which returns to the supervisor's m_run or m_done)
\* leaves the give-up failure count as it was, so that after k counting
\* failures and an ok event report N-k further ones reach offline_giveup.
EventOkKeepsGiveUpCount ==
    [][pc["m"] = "ms_reset" /\ pc'["m"] # "ms_reset" /\ ret["m"] \in {"m_run", "m_done"} =>
          circuit_count' = circuit_count]_vars

\* C14: enqueue is idempotent on the key: enqueuing a client_seq that already
\* has a row leaves that row's status, content and retry_count, and every other
\* row, as they were, and adds no row.
EnqueueIdempotent ==
    [][pc'["d"] = "q_enqueue" /\ queue[batch'["d"][1]] # "none" =>
          /\ queue' = queue
          /\ content' = content
          /\ retry_count' = retry_count]_vars

\* a row that failed once has been enqueued again, as archived, and is still failed
EnqueueIdempotentWitness ==
    /\ pc["d"] = "q_enqueue"
    /\ row_status["d"] = "archived"
    /\ queue[batch["d"][1]] = "failed"
    /\ retry_count[batch["d"][1]] = 1

\* C15: reconcile_with_server_ack(a) sets every row with client_seq <= a to
\* sent, every sent row above a to pending, and leaves every other row as it
\* was; when no row above a is failed or archived the next batch carries the
\* rows above a, in order.
ReconcileEffect ==
    [][pc'["d"] = "q_reconcile" =>
          /\ \A s \in Seqs :
                /\ queue[s] # "none" /\ s <= ack'["d"] => queue'[s] = "sent"
                /\ queue[s] = "sent" /\ s > ack'["d"] => queue'[s] = "pending"
                /\ queue[s] # "sent" /\ s > ack'["d"] => queue'[s] = queue[s]
                /\ queue[s] = "none" => queue'[s] = "none"
          /\ (\A s \in Seqs : s > ack'["d"] => queue[s] \in {"none", "pending", "sent"}) =>
                get_pending_batch(queue', QMax) =
                    AscendingFrom({s \in Seqs : queue[s] # "none" /\ s > ack'["d"]}, 1, QMax)
          /\ content' = content /\ retry_count' = retry_count]_vars

\* the server acknowledged 1: row 1, which had failed once, is sent, row 2 pending
ReconcileEffectWitness ==
    /\ pc["d"] = "q_reconcile"
    /\ ack["d"] = 1
    /\ queue[1] = "sent" /\ retry_count[1] = 1
    /\ queue[2] = "pending"

\* C16: no mark_sent_up_to (whatever its ack_seq), mark_failed,
\* reset_failed_to_pending, enqueue or archive_task turns a sent row into a
\* pending or failed one.
MarkSentMonotonic ==
    [][pc'["d"] \in {"q_mark_sent", "q_mark_failed", "q_reset", "q_enqueue", "q_archive"} =>
          \A s \in Seqs : queue[s] = "sent" => queue'[s] \notin {"pending", "failed"}]_vars

\* mark_sent_up_to(1) has been called with rows 1 and 2 already sent
MarkSentMonotonicWitness ==
    /\ pc["d"] = "q_mark_sent"
    /\ ack["d"] = 1
    /\ queue[1] = "sent" /\ queue[2] = "sent"

\* C18: no queue operation changes the status of an archived row.
ArchivedTerminal ==
    [][\A s \in Seqs : queue[s] = "archived" => queue'[s] = "archived"]_vars

\* C12: every sent row has a client_seq at most last_ack_seq, in every state
\* in which no flush is between its mark_sent_up_to and its update of
\* last_ack_seq.
SentBelowAck ==
    (\A t \in Threads : pc[t] \notin {"fl_ack", "fl_ack_set"}) =>
        \A s \in Seqs : queue[s] = "sent" => s <= last_ack_seq

\* the client_seqs of the rows that are pending, sent or failed
LiveSeqs == {s \in Seqs : queue[s] \in {"pending", "sent", "failed"}}

\* C13: the client_seqs of the pending, sent and failed rows form a gap-free
\* range that starts at max(1, last_ack_seq + 1), last_ack_seq being the one
\* the resume probe left; and every row the queue is given has a client_seq
\* above those of all rows it holds.
DenseFromAck ==
    /\ [](LiveSeqs = {} \/
          LiveSeqs = Max(1, resume_ack + 1)..(Max(1, resume_ack + 1) + Cardinality(LiveSeqs) - 1))
    /\ [][\A s \in Seqs : queue[s] = "none" /\ queue'[s] # "none" =>
              \A r \in Seqs : queue[r] # "none" => r < s]_vars

\* every row of the task has been acknowledged
AllAcknowledged ==
    /\ \E s \in Seqs : queue[s] # "none"
    /\ \A s \in Seqs : queue[s] \in {"none", "sent"}

\* C17: once every row has been acknowledged, the <<client_seq, content>>
\* pairs the server has accepted are those of the rows ingested, which is what
\* a run without failures over the same input delivers.
ReplayEquivalence ==
    AllAcknowledged =>
        received = {<<s, content[s]>> : s \in {r \in Seqs : queue[r] = "sent"}}

\* _abandon_task_push has switched the state to task_deleted and has returned
AbandonCompleted ==
    /\ transport_state = TASK_DELETED
    /\ \A t \in Threads : pc[t] \notin {"ab_sync", "ab_archive"}

\* C19: once the transition to task_deleted and its archive_task have
\* completed, no row is in status pending, failed or sent, whatever the other
\* workers were doing meanwhile.
NoLiveRowAfterAbandon ==
    AbandonCompleted => \A s \in Seqs : queue[s] \notin {"pending", "failed", "sent"}

\* C20: a chunk whose ingestion starts in state task_deleted gets status
\* archived, and a row enqueued in state task_deleted is never in a batch POST.
IngestedDeletedArchived ==
    /\ [][\A t \in Threads :
              pc[t] = "co_read" /\ pc'[t] = "co_enq" /\ transport_state = TASK_DELETED =>
                  row_status'[t] = "archived"]_vars
    /\ [][\A t \in Threads :
              pc[t] = "fl_post" /\ pc'[t] = "fl_wait" => SeqSet(batch[t]) \cap late_rows = {}]_vars

\* C21: the resume GET is issued exactly once per start of the uploader, and
\* it has been answered before a worker runs and before any batch POST or
\* heartbeat is issued.
ResumeProbeOnce ==
    /\ probes <= 1
    /\ uploader_started => probes = 1
    /\ (\/ \E t \in {"u", "h"} : pc[t] # "off"
        \/ \E s \in Seqs : posts[s] > 0
        \/ heartbeats > 0) => probes = 1 /\ pc["m"] \notin {"m_new", "rs_wait"}

\* one probe, then a batch POST and a heartbeat
ResumeProbeOnceWitness ==
    /\ probes = 1
    /\ heartbeats > 0
    /\ \E s \in Seqs : posts[s] > 0

\* the highest client_seq stored for the task, 0 if none
LocalMax == IF \A s \in Seqs : queue[s] = "none" THEN 0
            ELSE CHOOSE s \in Seqs : queue[s] # "none" /\ \A r \in Seqs : r > s => queue[r] = "none"

\* C22: after a resume probe answered ok with last_ack_seq = a the queue is
\* reconciled with a (rows up to a are sent, sent rows above a are pending,
\* the others are as they were) and the next client_seq is
\* max(a+1, local_max+1); get_next_seq(m) is max(local_max, m-1)+1 for every m.
ResumeNextSeq ==
    /\ [][pc["m"] = "rs_rec" /\ pc'["m"] = "m_threads" /\ classify(resume_code) = POST_OK =>
             /\ \A s \in Seqs :
                   /\ queue[s] # "none" /\ s <= last_ack_seq => queue'[s] = "sent"
                   /\ queue[s] = "sent" /\ s > last_ack_seq => queue'[s] = "pending"
                   /\ queue[s] # "sent" /\ s > last_ack_seq => queue'[s] = queue[s]
                   /\ queue[s] = "none" => queue'[s] = "none"
             /\ next_seq' = Max(last_ack_seq + 1, LocalMax + 1)]_vars
    /\ [](\A m \in -1..(QMax + 2) : get_next_seq(queue, m) = Max(LocalMax, m - 1) + 1)

\* the server acknowledged 1 while rows 1 and 2 are stored: row 2, locally
\* sent, is pending again and the next client_seq is 3
ResumeNextSeqWitness ==
    /\ pc["m"] = "m_threads"
    /\ classify(resume_code) = POST_OK
    /\ resume_ack = 1
    /\ queue[1] = "sent" /\ queue[2] = "pending"
    /\ next_seq = 3

\* C23: a resume probe that fails retryably leaves the status of every row as
\* it was and counts exactly one failure towards give-up; a 404 leaves
\* last_ack_seq at 0 and counts no failure.
ResumeFailureKeepsLocalState ==
    [][pc["m"] = "rs_rec" /\ pc'["m"] = "m_threads" /\ classify(resume_code) = POST_RETRYABLE_FAIL =>
          /\ resume_code # 404 => queue' = queue /\ circuit_count = 1
          /\ resume_code = 404 =>
                /\ last_ack_seq = 0
                /\ circuit_count = 0
                /\ transport_state = ONLINE]_vars

\* C24: the workers are started, and the uploader's first request is issued,
\* only after fork has returned in the parent and exec_r has reported EOF;
\* when exec fails (bytes on the pipe) they are never started.
ForkSafety ==
    /\ (uploader_started \/ probes > 0 \/ \E t \in {"u", "h"} : pc[t] # "off") =>
           /\ child \notin {"none", "forked"}
           /\ exec_pipe = "eof" /\ exec_checked /\ exec_ok
    /\ exec_pipe = "errno" =>
           ~uploader_started /\ probes = 0 /\ \A t \in {"u", "h"} : pc[t] = "off"

\* the workers run; exec was confirmed by EOF on the pipe
ForkSafetyWitness ==
    /\ pc["u"] \notin {"off", "u_exit"} /\ pc["h"] = "h_wait"
    /\ exec_pipe = "eof" /\ exec_ok
    /\ child = "running"

\* C25: when the child terminates before publish_grace_seconds have elapsed
\* since launch, no start event is sent and the uploader is never started, so
\* no final event is sent and no row is marked sent; the agent exits with the
\* child's code.
PublishGrace ==
    died_at # Unset /\ died_at < PUBLISH_GRACE_SECONDS =>
        /\ ~force_offline => ~published
        /\ ~uploader_started /\ probes = 0
        /\ pc["m"] \notin {"ev_post", "ev_wait"}
        /\ \A s \in Seqs : queue[s] # "sent"
        /\ pc["m"] = "sup_exit" => exit_code = exit_code_of(wstatus, 1)

\* C27: whenever the child ran, the exit status of the agent is the child's:
\* WEXITSTATUS after a normal exit, 128 + signal after a signalled one,
\* whatever happened in the upload pipeline.
ExitCodePropagated ==
    pc["m"] \in {"sup_exit", "sup_crash"} /\ wstatus # Unset =>
        AgentStatus = IF WIFEXITED(wstatus) THEN WEXITSTATUS(wstatus)
                      ELSE 128 + WTERMSIG(wstatus)

\* C28: the agent does not terminate while the child is unreaped; a SIGINT or
\* SIGTERM that reaches it before the child is reaped does not end it.
AgentOutlivesChild ==
    ~AgentAlive => child \in {"none", "reaped"}

\* C29: a queue operation that raises is caught at the uploader's boundary:
\* the uploader worker keeps running and the exception does not reach main.
QueueErrorsContained ==
    db_faults > 0 => pc["u"] # "u_dead" /\ pc["m"] # "sup_crash"

\* C30: the notification email is sent only when the agent finishes in
\* offline_giveup or force_offline is configured.
NotifierOnlyOffline ==
    pc["m"] = "sup_exit" /\ notified =>
        force_offline \/ transport_state = OFFLINE_GIVEUP

\* the threads that have an HTTP request in flight
InFlight == {t \in Threads : pc[t] \in {"rs_wait", "ev_wait", "fl_wait", "hb_wait"}}

\* C26: among the batch POSTs, the heartbeat POSTs, the resume GET and the
\* event POSTs of the task at most one request is in flight at any time.
SerializedHttp ==
    /\ Cardinality(InFlight) <= 1
    /\ \A t \in InFlight : request_lock = t

\* an event POST is in flight while a batch POST and a heartbeat wait for the lock
SerializedHttpWitness ==
    /\ pc["m"] = "ev_wait"
    /\ pc["u"] = "fl_post"
    /\ pc["h"] = "hb_post"

\* the send_event calls so far that reported the end of the task
FinalEvents == {i \in DOMAIN events : events[i] # "start"}

\* C31: when the start event was attempted, a final event is sent after the
\* child has exited: failed for a non-zero exit code, success for zero, at most
\* once and only after stop() has drained; the start event is attempted at
\* most once.
EventLifecycle ==
    /\ Cardinality({i \in DOMAIN events : events[i] = "start"}) <= 1
    /\ Cardinality(FinalEvents) <= 1
    /\ \A i \in FinalEvents :
          /\ events[i] = IF exit_code = 0 THEN "success" ELSE "failed"
          /\ child_terminated /\ stop
          /\ pc["m"] \in {"ev_post", "ev_wait", "m_done", "sup_exit"}
                \/ ret["m"] \in {"ev_post", "m_done"}
    /\ pc["m"] = "sup_exit" /\ (\E i \in DOMAIN events : events[i] = "start") =>
          FinalEvents # {}

\* the content column of row s: the chunk read at <<offset, length>>, decoded
\* (lines 1294-1297)
row_content(s) ==
    IF content[s] = << >> THEN << >>
    ELSE decode(SubSeq(log_bytes, content[s][1] + 1, content[s][1] + content[s][2]))

RECURSIVE ConcatContent(_)
\* the content of the rows with client_seq s and above, in ascending order
ConcatContent(s) ==
    IF s > QMax THEN << >> ELSE row_content(s) \o ConcatContent(s + 1)

RECURSIVE BytesIngested(_)
\* the bytes of the chunks of the rows with client_seq s and above
BytesIngested(s) ==
    IF s > QMax THEN 0
    ELSE (IF content[s] = << >> THEN 0 ELSE content[s][2]) + BytesIngested(s + 1)

\* C32: the contents of the task's rows, concatenated in ascending client_seq
\* order, are the decoding (with replacement) of the log file up to the
\* uploader's offset; every ingest adds one row and advances the offset by
\* the length of its chunk, so no chunk is dropped or duplicated.
RoundTrip ==
    (\A t \in Threads : pc[t] # "co_enq") =>
        /\ ConcatContent(1) = decode(SubSeq(log_bytes, 1, offset))
        /\ BytesIngested(1) = offset
        /\ \A s \in Seqs : content[s] # << >> => queue[s] # "none"

\* C33: while the transport state is offline_giveup neither the heartbeat
\* worker nor the uploader, in its loop or in the drain of stop(), issues an
\* HTTP request.
NoRequestInGiveUp ==
    [][transport_state = OFFLINE_GIVEUP =>
          /\ \A t \in {"u", "m"} : ~(pc[t] = "fl_post" /\ pc'[t] = "fl_wait")
          /\ ~(pc["h"] = "hb_post" /\ pc'["h"] = "hb_wait")]_vars

\* C34: the uploader's loop issues a batch POST only when now >= next_retry_at
\* (next_retry_at = 0 on the relative clock); a batch POST issued earlier is a
\* forced flush of the drain of stop().
BackoffGate ==
    [][\A t \in {"u", "m"} :
          pc[t] = "fl_post" /\ pc'[t] = "fl_wait" /\ next_retry_at > 0 =>
              t = "m" /\ force[t] /\ stop]_vars

\* the seconds since the first row that is still pending became pending
OldestPending ==
    LET P == {s \in Seqs : queue[s] = "pending"}
    IN  IF P = {} THEN Unset
        ELSE pending_age[CHOOSE s \in P : \A r \in P : pending_age[r] <= pending_age[s]]

\* C35: outside shutdown an iteration of the uploader posts a batch exactly
\* when pending_count >= batch_size, or pending_count > 0 and the first
\* still-pending row has been pending for at least the batch interval; every
\* batch posted carries between 1 and batch_size rows.
FlushDecision ==
    /\ [][pc["u"] = "fl_count" /\ pc'["u"] # "fl_count" /\ ~stop =>
              (pc'["u"] = "fl_get" <=>
                  \/ get_pending_count(queue) >= batch_size
                  \/ get_pending_count(queue) > 0 /\ OldestPending >= batch_interval_s)]_vars
    /\ [][\A t \in {"u", "m"} :
              pc[t] = "fl_post" /\ pc'[t] = "fl_wait" => Len(batch[t]) \in 1..batch_size]_vars

\* stop() has returned to main
StopReturned ==
    /\ stop
    /\ \/ pc["m"] \in {"ev_post", "ev_wait", "m_done", "sup_exit"}
       \/ ret["m"] \in {"ev_post", "m_done"}

\* C36: stop() makes at most 20 forced flushes, none of them once the state is
\* offline_giveup or task_deleted, and returns; once it has returned no row of
\* the task has status failed.
DrainLeavesNoFailed ==
    /\ [](drain_i <= DRAIN_ATTEMPTS)
    /\ [](StopReturned => \A s \in Seqs : queue[s] # "failed")
    /\ [][pc["m"] = "st_loop" /\ pc'["m"] = "fl_check" =>
              transport_state \notin {OFFLINE_GIVEUP, TASK_DELETED}]_vars

\* C37: an ok batch answer with ack_seq = a turns exactly the non-archived rows
\* with client_seq <= a into sent, leaves the rows of the batch above a pending,
\* sets last_ack_seq to max(last_ack_seq, a), which never decreases, and
\* notifies the state machine of the success.
AckApplication ==
    /\ [][\A t \in {"u", "m"} : pc[t] = "fl_mark" /\ pc'[t] = "fl_ack" =>
              /\ \A s \in Seqs :
                    queue'[s] = IF s <= ack[t] /\ queue[s] \notin {"none", "archived"}
                                THEN "sent" ELSE queue[s]
              /\ \A s \in SeqSet(batch[t]) : s > ack[t] => queue'[s] = "pending"]_vars
    /\ [][\A t \in {"u", "m"} : pc[t] = "fl_ack_set" /\ pc'[t] # "fl_ack_set" =>
              /\ last_ack_seq' = Max(last_ack_seq, ack[t])
              /\ pc'[t] = "ms_set"]_vars
    /\ [][last_ack_seq' >= last_ack_seq]_vars

\* locations inside _mark_transport_success, _mark_retryable_failure,
\* _enter_offline and _abandon_task_push
NotifyLocs == {"ms_set", "ms_sync", "ms_reset", "mf_get", "mf_set", "mf_sync",
               "mf_backoff", "mf_count", "eo_set", "eo_sync",
               "ab_set", "ab_sync", "ab_archive"}

\* C38: whenever the state is online and no notification is in progress,
\* backoff_seconds is the base of 5 s, next_retry_at is cleared and the
\* give-up counter is 0, also after a success notification of one worker
\* interleaved with a failure notification of another.
OnlineIsReset ==
    transport_state = ONLINE /\ (\A t \in Threads : pc[t] \notin NotifyLocs) =>
        /\ retry_backoff_seconds = RETRY_BACKOFF_BASE_SECONDS
        /\ next_retry_at = 0
        /\ circuit_count = 0

\* C39: in every state with no notification in progress the event flags agree
\* with the transport state: task_deleted iff the state is task_deleted, offline
\* iff it is offline_giveup or task_deleted, transient_offline iff it is not
\* online.
FlagsAgreeWithState ==
    (\A t \in Threads : pc[t] \notin NotifyLocs) =>
        /\ task_deleted <=> transport_state = TASK_DELETED
        /\ offline <=> transport_state \in {OFFLINE_GIVEUP, TASK_DELETED}
        /\ transient_offline <=> transport_state # ONLINE

\* the flush of thread t has fetched its batch and not yet applied the result
BetweenFetchAndApply(t) == pc[t] \in {"fl_post", "fl_wait", "fl_mark", "fl_failed"}

\* C40: no two flushes are at once between fetching the pending batch and
\* applying its result, stop()'s drain against the uploader worker included,
\* so no row is in two batches in flight.
FlushesDoNotOverlap ==
    /\ ~(BetweenFetchAndApply("u") /\ BetweenFetchAndApply("m"))
    /\ BetweenFetchAndApply("u") /\ BetweenFetchAndApply("m") =>
           SeqSet(batch["u"]) \cap SeqSet(batch["m"]) = {}

====
